---- MODULE Spec2Model ----
(***************************************************************************)
(* Model of the Strava -> Notion sync (src/sync.py): the orchestrator      *)
(* sync_strava_to_notion, the destination client's find-then-upsert, and   *)
(* the metric functions the orchestrator calls while enriching.  Three     *)
(* components are also followed on their own: the HTTP transport           *)
(* (SpecHttp), the StravaClient's token refresh and paginated listing      *)
(* (SpecClient), and the enrichment applied to drawn inputs (SpecCalc).    *)
(* SpecNotion follows the schema cache, the retry wrapper and the upserts, *)
(* SpecReport the run-statistics log and the weekly report's functions     *)
(* (src/scripts/weekly_status_report.py), SpecWeather the WeatherClient.   *)
(*                                                                         *)
(* Encodings.  Python's None is the empty tuple and a present value v is   *)
(* the one-element tuple <<v>>.  Minutes and load points are kept in       *)
(* hundredths (the code rounds both to 2 decimals).  Velocities are tenths *)
(* of a metre per second.  A JSON null inside a stream is NullSample.      *)
(***************************************************************************)
EXTENDS Integers, Sequences, FiniteSets, TLC

\* ------------------------------------------------------------------ bounds
MaxFetched == 2      \* longest activity list one run fetches
MaxRuns == 2         \* sync invocations in one behaviour

\* ------------------------------------------------------- program constants
SECONDS_PER_MINUTE == 60
DRIFT_MIN_MOVING_TIME_MINUTES == 20
DRIFT_MIN_DISTANCE_MILES == 3
DRIFT_MIN_HR_SAMPLES == 120
DRIFT_MIN_DURATION_FRACTION == 8             \* 0.8, in tenths
DRIFT_MIN_DURATION_SECONDS_FALLBACK == 10 * 60
DRIFT_MIN_VELOCITY_THRESHOLD_MPS == 1        \* 0.1 m/s, in tenths
METERS_TO_MILES == 621371                    \* 0.000621371, times 10^9
HTTP_MAX_RETRIES == 3
HTTP_BACKOFF_FACTOR == 100                   \* 1.0 s, in hundredths
HTTP_BACKOFF_JITTER_MAX == 25                \* 0.25 s, in hundredths
HTTP_RATE_LIMIT_BACKOFF_SECONDS == 60
DEFAULT_FAILURE_THRESHOLD == 200             \* 0.2, in thousandths

PACE_SPORTS == {"Run", "TrailRun", "Walk", "Hike", "VirtualRun"}
INDOOR_SPORTS == {"WeightTraining", "Workout", "Crossfit"}
CARDIO_SPORTS == {"Run", "Hike", "StairStepper", "TrailRun", "Walk", "VirtualRun"}

\* ---------------------------------------------------------------- helpers
None == <<>>
Some(v) == <<v>>
Min2(a, b) == IF a <= b THEN a ELSE b
Max2(a, b) == IF a >= b THEN a ELSE b
NullSample == 0 - 1
NoMax == 0 - 1       \* "max": null of the top zone

\* ------------------------------------------------- compute_hr_zone_minutes
\* A variant of InBand whose bands include their upper bound.
InBand_Closed(hr, zone) == hr >= zone.min /\ (zone.max = NoMax \/ hr <= zone.max)

\* Line 499: hr lies in the half-open band [min, max) of the zone.
InBand(hr, zone) == hr >= zone.min /\ (zone.max = NoMax \/ hr < zone.max)

\* The first zone whose band holds hr; 0 when none does.
RECURSIVE ZoneOf(_, _, _)
ZoneOf(hr, zones, idx) ==
    IF idx > Len(zones) THEN 0
    ELSE IF InBand(hr, zones[idx]) THEN idx
         ELSE ZoneOf(hr, zones, idx + 1)

\* A variant of IntervalSeconds that takes the difference as it is.
IntervalSeconds_Signed(t0, t1) == t1 - t0

\* Line 495: dt = max(0, t_values[i + 1] - t_values[i]).
IntervalSeconds(t0, t1) == Max2(0, t1 - t0)

\* Seconds attributed to zone z by the intervals 1 .. i (leading sample's zone).
RECURSIVE ZoneSeconds(_, _, _, _, _)
ZoneSeconds(hr, t, zones, z, i) ==
    IF i = 0 THEN 0
    ELSE ZoneSeconds(hr, t, zones, z, i - 1)
         + (IF ZoneOf(hr[i], zones, 1) = z THEN IntervalSeconds(t[i], t[i + 1]) ELSE 0)

\* round(seconds / 60, 2) in hundredths of a minute: 100 * s / 60 = 5s / 3 is
\* never half way between two integers, so nearest is unambiguous.
CentiMinutes(seconds) == (10 * seconds + 3) \div 6

\* hr >= min_hr raises TypeError on a null leading sample (line 499).
ZoneMinutesRaises(hr_stream, zones) ==
    /\ hr_stream # None
    /\ zones # None
    /\ LET s == hr_stream[1]
           n == Min2(Len(s.hr), Len(s.time))
       IN  n >= 2 /\ \E i \in 1 .. (n - 1) : s.hr[i] = NullSample

\* Lines 491-501: zone_counts, the seconds accumulated per zone.
zone_counts(s, zones) ==
    LET n == Min2(Len(s.hr), Len(s.time))
    IN  [z \in 1 .. Len(zones) |-> ZoneSeconds(s.hr, s.time, zones, z, n - 1)]

compute_hr_zone_minutes(hr_stream, zones) ==
    IF hr_stream = None \/ zones = None \/ zones = Some(<<>>) THEN None
    ELSE LET s == hr_stream[1]
             n == Min2(Len(s.hr), Len(s.time))
         IN  IF n < 2 THEN None
             ELSE Some([z \in 1 .. Len(zones[1]) |-> CentiMinutes(zone_counts(s, zones[1])[z])])

\* ----------------------------------------- compute_zone_weighted_load_points
RECURSIVE WeightedSum(_, _)
WeightedSum(zone_minutes, z) ==
    IF z = 0 THEN 0
    ELSE WeightedSum(zone_minutes, z - 1)
         + (IF z \in DOMAIN zone_minutes THEN zone_minutes[z] * z ELSE 0)

\* A variant of compute_zone_weighted_load_points that returns a total of zero.
compute_zone_weighted_load_points_ZeroKept(zone_minutes) ==
    IF zone_minutes = None THEN None ELSE Some(WeightedSum(zone_minutes[1], 5))

compute_zone_weighted_load_points(zone_minutes) ==
    IF zone_minutes = None THEN None
    ELSE LET total_load == WeightedSum(zone_minutes[1], 5)
         IN  IF total_load > 0 THEN Some(total_load) ELSE None

\* -------------------------------------------------------- compute_hr_drift
\* Times are doubled so that the midpoint is an integer.
ZeroAcc == [hr_sum_1 |-> 0, hr_sum_2 |-> 0, vel_sum_1 |-> 0, vel_sum_2 |-> 0,
            dt_1 |-> 0, dt_2 |-> 0]

\* A variant of DriftSegment that gives the interval across the midpoint to the
\* first half whole.
DriftSegment_NoSplit(hr, vel, t0, t1, mid2) ==
    IF t1 <= t0 THEN ZeroAcc
    ELSE IF 2 * t0 >= mid2
         THEN [ZeroAcc EXCEPT !.hr_sum_2 = hr * 2 * (t1 - t0),
                              !.vel_sum_2 = vel * 2 * (t1 - t0),
                              !.dt_2 = 2 * (t1 - t0)]
    ELSE [ZeroAcc EXCEPT !.hr_sum_1 = hr * 2 * (t1 - t0),
                         !.vel_sum_1 = vel * 2 * (t1 - t0),
                         !.dt_1 = 2 * (t1 - t0)]

\* Lines 546-577: one pass of the loop over the intervals.
DriftSegment(hr, vel, t0, t1, mid2) ==
    IF t1 <= t0 THEN ZeroAcc
    ELSE IF 2 * t1 <= mid2
         THEN [ZeroAcc EXCEPT !.hr_sum_1 = hr * 2 * (t1 - t0),
                              !.vel_sum_1 = vel * 2 * (t1 - t0),
                              !.dt_1 = 2 * (t1 - t0)]
    ELSE IF 2 * t0 >= mid2
         THEN [ZeroAcc EXCEPT !.hr_sum_2 = hr * 2 * (t1 - t0),
                              !.vel_sum_2 = vel * 2 * (t1 - t0),
                              !.dt_2 = 2 * (t1 - t0)]
    ELSE LET dt_first == Max2(0, mid2 - 2 * t0)
             dt_second == Max2(0, 2 * t1 - mid2)
         IN  [hr_sum_1 |-> hr * dt_first, vel_sum_1 |-> vel * dt_first, dt_1 |-> dt_first,
              hr_sum_2 |-> hr * dt_second, vel_sum_2 |-> vel * dt_second, dt_2 |-> dt_second]

RECURSIVE DriftAcc(_, _, _, _, _)
DriftAcc(hr, t, vel, mid2, i) ==
    IF i = 0 THEN ZeroAcc
    ELSE LET a == DriftAcc(hr, t, vel, mid2, i - 1)
             s == DriftSegment(hr[i], vel[i], t[i], t[i + 1], mid2)
         IN  [f \in DOMAIN ZeroAcc |-> a[f] + s[f]]

\* Lines 526-577: dt_1 and dt_2 (and the sums) when the loop is over; None when
\* the function returned before the loop.
DriftHalves(s) ==
    LET n == Min2(Min2(Len(s.hr), Len(s.time)), Len(s.vel))
    IN  IF n < 2 THEN None
        ELSE IF s.time[n] - s.time[1] <= 0 THEN None
        ELSE Some(DriftAcc(s.hr, s.time, s.vel, s.time[1] + s.time[n], n - 1))

\* hr * dt raises TypeError on a null sample of an interval that counts.
HrDriftRaises(s) ==
    LET n == Min2(Min2(Len(s.hr), Len(s.time)), Len(s.vel))
    IN  /\ n >= 2
        /\ s.time[n] - s.time[1] > 0
        /\ \E i \in 1 .. (n - 1) : s.time[i + 1] > s.time[i] /\ s.hr[i] = NullSample

\* A variant of TooSlow that lets an average of exactly the threshold pass.
TooSlow_Strict(vel_sum, dt) == vel_sum < DRIFT_MIN_VELOCITY_THRESHOLD_MPS * dt

\* Line 588: avg_vel <= DRIFT_MIN_VELOCITY_THRESHOLD_MPS, with avg_vel =
\* vel_sum / dt and velocities in tenths of m/s.
TooSlow(vel_sum, dt) == vel_sum <= DRIFT_MIN_VELOCITY_THRESHOLD_MPS * dt

compute_hr_drift(s, moving_time_s, distance_m) ==
    LET n == Min2(Min2(Len(s.hr), Len(s.time)), Len(s.vel))
    IN  IF n < 2 THEN None
        ELSE LET total_duration == s.time[n] - s.time[1]
                 mid2 == 2 * s.time[1] + total_duration
                 a == DriftAcc(s.hr, s.time, s.vel, mid2, n - 1)
             IN  IF total_duration <= 0 THEN None
                 ELSE IF a.dt_1 <= 0 \/ a.dt_2 <= 0 THEN None
                 ELSE IF TooSlow(a.vel_sum_1, a.dt_1) \/ TooSlow(a.vel_sum_2, a.dt_2)
                      THEN None
                 \* eff_1 = avg_hr_1 / avg_vel_1 <= 0  <=>  hr_sum_1 <= 0
                 ELSE IF a.hr_sum_1 <= 0 THEN None
                 ELSE Some(a)


\* ------------------------------------------------------------ environment
\* The athlete's heart-rate zones as the source returns them.
AthleteZones ==
    << [min |-> 0, max |-> 115], [min |-> 115, max |-> 152], [min |-> 152, max |-> 171],
       [min |-> 171, max |-> 190], [min |-> 190, max |-> NoMax] >>

\* Streams the source returns (hr in bpm, time in s, vel in tenths of m/s).
StreamGood    == [hr |-> <<120, 150, 170>>, time |-> <<0, 900, 1800>>, vel |-> <<30, 30, 28>>]
StreamPartial == [hr |-> <<110, 110, 160, 160>>, time |-> <<0, 30, 60, 90>>, vel |-> <<>>]
StreamNull    == [hr |-> <<120, NullSample, 130>>, time |-> <<0, 900, 1800>>, vel |-> <<>>]

\* The activities of the source account: immutable facts, keyed by id.
\* stream is what get_activity_hr_stream returns for the activity.
StravaActivities ==
    << [id |-> 1, type |-> "Run", has_heartrate |-> TRUE, moving_time |-> 1800,
        distance |-> 5000, start_latlng |-> TRUE, day |-> 1, stream |-> Some(StreamGood)],
       [id |-> 2, type |-> "Run", has_heartrate |-> TRUE, moving_time |-> 1800,
        distance |-> 5000, start_latlng |-> FALSE, day |-> 1, stream |-> Some(StreamPartial)],
       [id |-> 3, type |-> "WeightTraining", has_heartrate |-> TRUE, moving_time |-> 1200,
        distance |-> 0, start_latlng |-> TRUE, day |-> 2, stream |-> Some(StreamNull)] >>

ActivityIds == 1 .. Len(StravaActivities)
BadPayload == 0      \* a list element that is not a dict (an error string)
IsDict(p) == p # BadPayload

\* Lists the listing can return: at most MaxFetched payloads, the activities in
\* ascending order without repetition, a non-dict payload anywhere.
FetchLists ==
    UNION { { s \in [1 .. n -> ActivityIds \cup {BadPayload}] :
                \A i, j \in 1 .. n : (i < j /\ IsDict(s[i]) /\ IsDict(s[j])) => s[i] < s[j] }
            : n \in 0 .. MaxFetched }

Thresholds == {DEFAULT_FAILURE_THRESHOLD, 500}


\* ------------------------------------------- enrichment (lines 1834-1923)
\* min_distance_m = 3.0 / 0.000621371 = 4828.03..., not an integer: an integer
\* distance reaches it exactly when it exceeds the floor of the quotient.
MinDistanceFloor ==
    LET c == DRIFT_MIN_DISTANCE_MILES * 1000000
    IN  (c \div METERS_TO_MILES) * 1000 + ((c % METERS_TO_MILES) * 1000) \div METERS_TO_MILES

\* A variant of BasicDriftEligible without the distance requirement.
BasicDriftEligible_AnyDistance(a) ==
    /\ a.has_heartrate
    /\ a.type \in PACE_SPORTS
    /\ a.moving_time >= DRIFT_MIN_MOVING_TIME_MINUTES * SECONDS_PER_MINUTE

BasicDriftEligible(a) ==
    /\ a.has_heartrate
    /\ a.type \in PACE_SPORTS
    /\ a.moving_time >= DRIFT_MIN_MOVING_TIME_MINUTES * SECONDS_PER_MINUTE
    /\ a.distance > MinDistanceFloor

\* streams: fetched only when zones or drift need them.
FetchedStream(a, zones) ==
    IF a.has_heartrate /\ (zones # None \/ BasicDriftEligible(a)) THEN a.stream ELSE None

NSamples(s) == Min2(Len(s.hr), Len(s.time))
DurationStream(s) == IF NSamples(s) >= 2 THEN s.time[Len(s.time)] - s.time[1] ELSE 0

\* n_samples >= 120 or duration_stream >= max(moving_time_s * 0.8, 600), in tenths.
CoverageOk(s, moving_time_s) ==
    \/ NSamples(s) >= DRIFT_MIN_HR_SAMPLES
    \/ 10 * DurationStream(s) >= Max2(moving_time_s * DRIFT_MIN_DURATION_FRACTION,
                                     10 * DRIFT_MIN_DURATION_SECONDS_FALLBACK)

HrDataQuality(a, s) ==
    IF ~a.has_heartrate \/ NSamples(s) = 0 THEN "None"
    ELSE IF CoverageOk(s, a.moving_time) THEN "Good"
    ELSE "Partial"

\* A variant of LoadPts that sets load points whatever the data quality.
LoadPts_AnyQuality(a, quality, hr_zone_minutes) ==
    IF a.type \in CARDIO_SPORTS
    THEN LET load_pts == compute_zone_weighted_load_points(hr_zone_minutes)
         IN  IF load_pts # None /\ load_pts[1] > 0 THEN load_pts ELSE None
    ELSE None

\* Load points of an activity whose zone minutes were computed (lines 1889-1895).
LoadPts(a, quality, hr_zone_minutes) ==
    IF a.type \in CARDIO_SPORTS /\ quality = "Good"
    THEN LET load_pts == compute_zone_weighted_load_points(hr_zone_minutes)
         IN  IF load_pts # None /\ load_pts[1] > 0 THEN load_pts ELSE None
    ELSE None

DefaultAnnotations ==
    [hr_zone_minutes |-> None, drift_metrics |-> None, drift_eligible |-> FALSE,
     hr_data_quality |-> "None", load_pts |-> None]

\* An exception leaves the enrichment block: nothing around lines 1864-1923
\* catches the TypeError of a null sample.
EnrichRaises(a, zones) ==
    LET streams == FetchedStream(a, zones)
    IN  /\ streams # None
        /\ \/ ZoneMinutesRaises(streams, zones)
           \/ /\ BasicDriftEligible(a)
              /\ CoverageOk(streams[1], a.moving_time)
              /\ HrDriftRaises(streams[1])

Annotate(a, zones) ==
    LET streams == FetchedStream(a, zones)
    IN  IF streams = None THEN DefaultAnnotations
        ELSE LET s == streams[1]
                 quality == HrDataQuality(a, s)
                 hzm == compute_hr_zone_minutes(streams, zones)
                 drift == IF BasicDriftEligible(a) /\ CoverageOk(s, a.moving_time)
                          THEN compute_hr_drift(s, a.moving_time, a.distance)
                          ELSE None
             IN  [hr_zone_minutes |-> hzm,
                  drift_metrics |-> drift,
                  drift_eligible |-> (drift # None),
                  hr_data_quality |-> quality,
                  load_pts |-> IF hzm # None THEN LoadPts(a, quality, hzm) ELSE None]

\* _convert_activity_to_properties, lines 1462-1486: the drift properties of the
\* written payload, by their NOTION_SCHEMA keys.  compute_hr_drift returns all
\* five metrics whenever it returns a dict, so each key is written.
DriftProperties(annotation) ==
    IF annotation.drift_metrics # None
    THEN {"hr_drift_pct", "hr_1st_half_bpm", "hr_2nd_half_bpm",
          "speed_1st_half_mph", "speed_2nd_half_mph"}
    ELSE {}


\* ------------------------------------------------ aggregate_daily_summaries
ZeroDay == [session_count |-> 0, total_moving_time_s |-> 0, total_load_pts |-> 0,
            eligible_cardio_count |-> 0, load_workouts_count |-> 0]

\* The summary of day d over the first i activities; annotations[i] belongs to acts[i].
RECURSIVE DayFold(_, _, _, _)
DayFold(acts, annotations, d, i) ==
    IF i = 0 THEN ZeroDay
    ELSE LET prev == DayFold(acts, annotations, d, i - 1)
             a == StravaActivities[acts[i]]
             n == annotations[i]
             cardio == a.type \in CARDIO_SPORTS
             counts == /\ cardio
                       /\ n.hr_data_quality = "Good"
                       /\ n.load_pts # None
                       /\ n.load_pts[1] > 0
         IN  IF a.day # d THEN prev
             ELSE [session_count |-> prev.session_count + 1,
                   total_moving_time_s |-> prev.total_moving_time_s + a.moving_time,
                   total_load_pts |-> prev.total_load_pts + (IF counts THEN n.load_pts[1] ELSE 0),
                   eligible_cardio_count |-> prev.eligible_cardio_count + (IF cardio THEN 1 ELSE 0),
                   load_workouts_count |-> prev.load_workouts_count + (IF counts THEN 1 ELSE 0)]

\* activity.get on a payload that is not a dict raises AttributeError (line 620).
AggregateRaises(acts) == \E i \in 1 .. Len(acts) : ~IsDict(acts[i])

aggregate_daily_summaries(acts, annotations) ==
    [d \in {StravaActivities[acts[i]].day : i \in 1 .. Len(acts)} |->
        DayFold(acts, annotations, d, Len(acts))]

\* ---------------------------------------------------- compute_rolling_loads
RECURSIVE SumLoads(_, _, _, _)
SumLoads(daily, ds, today, last) ==
    IF ds = {} THEN 0
    ELSE LET d == CHOOSE x \in ds : TRUE
             days_ago == today - d
         IN  (IF 0 <= days_ago /\ days_ago <= last THEN daily[d].total_load_pts ELSE 0)
             + SumLoads(daily, ds \ {d}, today, last)

\* A variant of compute_rolling_loads whose short window reaches back 7 days.
compute_rolling_loads_EightDays(daily, today) ==
    [load_7d |-> SumLoads(daily, DOMAIN daily, today, 7),
     load_28d |-> SumLoads(daily, DOMAIN daily, today, 27)]

compute_rolling_loads(daily, today) ==
    [load_7d |-> SumLoads(daily, DOMAIN daily, today, 6),
     load_28d |-> SumLoads(daily, DOMAIN daily, today, 27)]

\* round(num / den, 3) in thousandths, ties to even as Python's round.
RoundMilli(num, den) ==
    LET q == (1000 * num) \div den
        r == (1000 * num) % den
    IN  IF 2 * r > den THEN q + 1
        ELSE IF 2 * r < den THEN q
        ELSE IF q % 2 = 0 THEN q ELSE q + 1

\* A variant of AthleteMetrics that reports a balance of 0 without a 28-day load.
AthleteMetrics_ZeroBalance(daily, today) ==
    LET rolling_loads == compute_rolling_loads(daily, today)
    IN  [load_7d |-> IF rolling_loads.load_7d > 0 THEN Some(rolling_loads.load_7d) ELSE None,
         load_28d |-> IF rolling_loads.load_28d > 0 THEN Some(rolling_loads.load_28d) ELSE None,
         load_balance |-> IF rolling_loads.load_28d > 0
                          THEN Some(RoundMilli(rolling_loads.load_7d, rolling_loads.load_28d))
                          ELSE Some(0)]

\* metrics of the athlete row (lines 2077-2094).
AthleteMetrics(daily, today) ==
    LET rolling_loads == compute_rolling_loads(daily, today)
        load_7d_val == rolling_loads.load_7d
        load_28d_val == rolling_loads.load_28d
    IN  [load_7d |-> IF load_7d_val > 0 THEN Some(load_7d_val) ELSE None,
         load_28d |-> IF load_28d_val > 0 THEN Some(load_28d_val) ELSE None,
         load_balance |-> IF load_28d_val > 0
                          THEN Some(RoundMilli(load_7d_val, load_28d_val)) ELSE None]

Todays == {2, 8}     \* "today" of a run, as a day number


\* ------------------------------------------------------------------ state
VARIABLES
    rows,              \* destination activity table: rows per external activity id
    stats_file,        \* stats/run_stats.json: the run records, each with its age in days
    run,               \* sync invocations started so far
    pc,                \* position of the current invocation in sync_strava_to_notion
    exit_code,         \* process exit status once the invocation has ended
    setup_error,       \* the setup failure this invocation logged, "none" otherwise
    activities,        \* payloads fetched by this run
    idx,               \* index of the activity the loop is at
    hr_zones,          \* hr_zones of this run
    existing_map,      \* ids the batch query mapped to a page
    stats,             \* stats dict of the activity loop
    ann,               \* annotations attached to the activities processed so far
    log,               \* per processed activity: lookups, calls and result
    summary_logged,    \* the "Sync Summary" block was logged
    failure_threshold, \* failure_threshold the gate compared with, in thousandths
    daily_summaries,   \* daily_summaries once computed
    athlete_metrics,   \* metrics handed to upsert_athlete_metrics
    run_stats,         \* run_stats dict of the optional syncs
    warn_log,          \* warnings logged by the optional syncs
    sub_writes,        \* rows written to the optional tables
    http,              \* one call of http_request_with_retries
    client,            \* a StravaClient and its current get_recent_activities call
    calc,              \* one application of a function of the enrichment to drawn inputs
    notion             \* NotionSchemaCache, and the current call on a NotionClient

vars == << rows, stats_file, run, pc, exit_code, setup_error, activities, idx, hr_zones,
           existing_map, stats, ann, log, summary_logged, failure_threshold,
           daily_summaries, athlete_metrics, run_stats, warn_log, sub_writes,
           http, client, calc, notion >>

\* The variables of sync_strava_to_notion, and those of the components that are
\* followed on their own.
syncvars == << rows, stats_file, run, pc, exit_code, setup_error, activities, idx, hr_zones,
               existing_map, stats, ann, log, summary_logged, failure_threshold,
               daily_summaries, athlete_metrics, run_stats, warn_log, sub_writes >>
components == << http, client, calc, notion >>

durable == << rows, stats_file >>
loopvars == << activities, idx, hr_zones, existing_map, stats, ann, log >>
tailvars == << summary_logged, failure_threshold, daily_summaries, athlete_metrics,
               run_stats, warn_log, sub_writes >>

ZeroStats == [fetched |-> 0, created |-> 0, updated |-> 0, skipped |-> 0, failed |-> 0]
ZeroRunStats == [daily_enabled |-> FALSE, days_processed |-> 0, daily_failed |-> 0,
                 athlete_enabled |-> FALSE, upserted |-> FALSE, athlete_failed |-> FALSE,
                 warnings |-> 0]

Ended == {"done", "exited", "crashed"}

\* No call of http_request_with_retries is in progress.
HttpIdle == [state |-> "idle"]

\* No StravaClient has been constructed.
NoClient == [state |-> "none"]

\* No function application is being followed.
NoCalc == [op |-> "none"]

\* The databases of the three NotionClient instances the job constructs (lines
\* 1761, 2038, 2067), and the keys a client is constructed with.
DatabaseIds == {"activities", "daily", "metrics"}
ApiKeys == {"k1", "k2"}

\* NotionSchemaCache as the class statement leaves it (_cache = {}, _api_key =
\* None): cached holds the keys of _cache and schema their values.  No call of
\* _notion_call_with_retries is in progress and no NotionClient method has run.
NoKey == "none"
NotionIdle == [state |-> "idle"]
NoNotion == [cached |-> {}, schema |-> [d \in DatabaseIds |-> None], api_key |-> NoKey,
             retrievals |-> [d \in DatabaseIds |-> 0], call |-> NotionIdle,
             last |-> [op |-> "none"]]

RunLocalReset ==
    /\ activities' = <<>>
    /\ idx' = 1
    /\ hr_zones' = None
    /\ existing_map' = {}
    /\ stats' = ZeroStats
    /\ ann' = <<>>
    /\ log' = <<>>
    /\ summary_logged' = FALSE
    /\ failure_threshold' = DEFAULT_FAILURE_THRESHOLD
    /\ daily_summaries' = None
    /\ athlete_metrics' = None
    /\ run_stats' = ZeroRunStats
    /\ warn_log' = 0
    /\ sub_writes' = 0

Init ==
    /\ rows = [i \in ActivityIds |-> 0]
    /\ stats_file = <<>>
    /\ run = 0
    /\ pc = "idle"
    /\ exit_code = None
    /\ setup_error = "none"
    /\ activities = <<>>
    /\ idx = 1
    /\ hr_zones = None
    /\ existing_map = {}
    /\ stats = ZeroStats
    /\ ann = <<>>
    /\ log = <<>>
    /\ summary_logged = FALSE
    /\ failure_threshold = DEFAULT_FAILURE_THRESHOLD
    /\ daily_summaries = None
    /\ athlete_metrics = None
    /\ run_stats = ZeroRunStats
    /\ warn_log = 0
    /\ sub_writes = 0
    /\ http = HttpIdle
    /\ client = NoClient
    /\ calc = NoCalc
    /\ notion = NoNotion

\* A variant of SysExit: the error is logged and the function just returns.
SysExit_Returns ==
    /\ pc' = "done"
    /\ exit_code' = Some(0)

\* sys.exit(1)
SysExit ==
    /\ pc' = "exited"
    /\ exit_code' = Some(1)

\* An exception nothing catches: the interpreter prints the traceback and exits 1.
Unhandled ==
    /\ pc' = "crashed"
    /\ exit_code' = Some(1)

\* Lines 1724-1751: a new invocation reads and validates its environment.
StartRun ==
    /\ pc \in Ended \cup {"idle"}
    /\ run < MaxRuns
    /\ run' = run + 1
    /\ RunLocalReset
    /\ \E missing \in BOOLEAN :
          IF missing
          THEN setup_error' = "missing_env" /\ SysExit
          ELSE setup_error' = "none" /\ pc' = "init" /\ exit_code' = None
    /\ UNCHANGED durable
    /\ UNCHANGED components


\* Lines 1753-1773: StravaClient() refreshes the access token; NotionClient().
InitClients ==
    /\ pc = "init"
    /\ \E outcome \in {"ok", "strava_auth_failed", "notion_init_failed"} :
          IF outcome = "ok"
          THEN pc' = "fetch" /\ UNCHANGED << exit_code, setup_error >>
          ELSE setup_error' = outcome /\ SysExit
    /\ UNCHANGED << durable, run, loopvars, tailvars >>
    /\ UNCHANGED components

\* Lines 1775-1802: the listing; an empty list returns at once.
FetchActivities ==
    /\ pc = "fetch"
    /\ \/ /\ setup_error' = "fetch_failed"           \* get_recent_activities raised
          /\ SysExit
          /\ UNCHANGED activities
       \/ \E fetched \in FetchLists :
             /\ activities' = fetched
             /\ IF fetched = <<>>
                THEN pc' = "done" /\ exit_code' = Some(0)
                ELSE pc' = "prepare" /\ exit_code' = None
             /\ UNCHANGED setup_error
    /\ UNCHANGED << durable, run, idx, hr_zones, existing_map, stats, ann, log, tailvars >>
    /\ UNCHANGED components

\* get_existing_activity_pages: every row's id when the query answers, nothing
\* when it fails (the tables here fit one result page).
get_existing_activity_pages(batch_ok) ==
    IF batch_ok THEN {i \in ActivityIds : rows[i] > 0} ELSE {}

\* Lines 1804-1825: zones, the batch map, the counters.
Prepare ==
    /\ pc = "prepare"
    /\ \E zones \in {None, Some(AthleteZones)} : hr_zones' = zones
    /\ \E batch_ok \in BOOLEAN : existing_map' = get_existing_activity_pages(batch_ok)
    /\ stats' = [ZeroStats EXCEPT !.fetched = Len(activities)]
    /\ pc' = "enrich"
    /\ UNCHANGED << durable, run, exit_code, setup_error, activities, idx, ann, log, tailvars >>
    /\ UNCHANGED components

\* A variant of AfterActivity that leaves the loop once the failures so far
\* exceed the default threshold.
AfterActivity_StopOnFailures(i) ==
    IF i + 1 > Len(activities) \/ stats'.failed * 1000 > DEFAULT_FAILURE_THRESHOLD * stats'.fetched
    THEN "summary" ELSE "enrich"

\* Where the loop goes after the activity at index i.
AfterActivity(i) == IF i + 1 > Len(activities) THEN "summary" ELSE "enrich"

NoCallEntry(payload) ==
    [id |-> payload, existing |-> FALSE, photo |-> FALSE, weather |-> FALSE,
     attempted |-> FALSE, call |-> "none", result |-> "failed", rows_before |-> 0]

\* Lines 1827-1923: the type check and the HR enrichment of one activity.
EnrichActivity ==
    /\ pc = "enrich"
    /\ idx <= Len(activities)
    /\ LET payload == activities[idx]
       IN  IF ~IsDict(payload)
           THEN /\ stats' = [stats EXCEPT !.failed = @ + 1]
                /\ ann' = Append(ann, DefaultAnnotations)
                /\ log' = Append(log, NoCallEntry(payload))
                /\ idx' = idx + 1
                /\ pc' = AfterActivity(idx)
                /\ UNCHANGED exit_code
           ELSE IF EnrichRaises(StravaActivities[payload], hr_zones)
           THEN /\ Unhandled
                /\ UNCHANGED << stats, ann, log, idx >>
           ELSE /\ ann' = Append(ann, Annotate(StravaActivities[payload], hr_zones))
                /\ pc' = "upsert"
                /\ UNCHANGED << stats, log, idx, exit_code >>
    /\ UNCHANGED << durable, run, setup_error, activities, hr_zones, existing_map, tailvars >>
    /\ UNCHANGED components

\* find_page_by_activity_id: the page when the query answers and a row exists;
\* None when there is no row and also when the query fails.
find_page_by_activity_id(activity_id, lookup_ok) ==
    lookup_ok /\ rows[activity_id] > 0

\* Lines 1925-1929.
ExistingPage(activity_id, lookup_ok) ==
    \/ activity_id \in existing_map
    \/ find_page_by_activity_id(activity_id, lookup_ok)

\* A variant of PhotoWanted that fetches the photo for every activity.
PhotoWanted_Always(existing) == TRUE

\* Line 1932.
PhotoWanted(existing) == ~existing

\* Lines 1939-1949.
WeatherWanted(a, existing) ==
    /\ ~existing
    /\ a.type \notin INDOOR_SPORTS
    /\ a.start_latlng

\* Which call upsert_activity issues (lines 1330-1346).
UpsertCall(existing) == IF existing THEN "update" ELSE "create"

\* What the loop counts for a returned upsert (lines 1969-1982).
UpsertResult(success, existing) ==
    IF ~success THEN "failed"
    ELSE IF existing THEN "updated" ELSE "created"

\* Lines 1925-1985: lookup, photo, weather and upsert of one activity.
\* outcome: the write succeeds, the API refuses it (upsert_activity returns
\* False), or building the properties raises before any call is made.
UpsertActivity ==
    /\ pc = "upsert"
    /\ \E lookup_ok \in BOOLEAN, outcome \in {"ok", "api_error", "raises"} :
          LET a == StravaActivities[activities[idx]]
              existing == ExistingPage(a.id, lookup_ok)
              call == IF outcome = "raises" THEN "none" ELSE UpsertCall(existing)
              result == UpsertResult(outcome = "ok", existing)
          IN  /\ rows' = IF outcome = "ok" /\ call = "create"
                         THEN [rows EXCEPT ![a.id] = @ + 1] ELSE rows
              /\ stats' = [stats EXCEPT ![result] = @ + 1]
              /\ log' = Append(log, [id |-> a.id, existing |-> existing,
                                     photo |-> PhotoWanted(existing),
                                     weather |-> WeatherWanted(a, existing),
                                     attempted |-> TRUE, call |-> call,
                                     result |-> result, rows_before |-> rows[a.id]])
    /\ idx' = idx + 1
    /\ pc' = AfterActivity(idx)
    /\ UNCHANGED << stats_file, run, exit_code, setup_error, activities, hr_zones, existing_map,
                    ann, tailvars >>
    /\ UNCHANGED components


\* Lines 1987-1995: the end-of-run summary block.
LogSummary ==
    /\ pc = "summary"
    /\ summary_logged' = TRUE
    /\ pc' = "gate"
    /\ UNCHANGED << durable, run, exit_code, setup_error, loopvars, failure_threshold, daily_summaries,
                    athlete_metrics, run_stats, warn_log, sub_writes >>
    /\ UNCHANGED components

\* A variant of GateTrips that lets every run through.
GateTrips_Never(st, threshold) == FALSE

\* Lines 1998-2000: failed / fetched > failure_threshold, threshold in thousandths.
GateTrips(st, threshold) ==
    /\ st.fetched > 0
    /\ st.failed * 1000 > threshold * st.fetched

\* Lines 1997-2007.  The threshold is a parameter of the invocation that only
\* this step reads; its value is drawn here.
FailureGate ==
    /\ pc = "gate"
    /\ \E threshold \in Thresholds :
          /\ failure_threshold' = threshold
          /\ IF GateTrips(stats, threshold)
             THEN SysExit
             ELSE pc' = "daily" /\ exit_code' = None
    /\ UNCHANGED << durable, run, setup_error, loopvars, summary_logged, daily_summaries,
                    athlete_metrics, run_stats, warn_log, sub_writes >>
    /\ UNCHANGED components

\* upsert_daily_summary / upsert_athlete_metrics: True after the write; False
\* (with a warning logged) when the query or the write raised.
UpsertOutcomes == {"ok", "error"}
Failures(outcome) == {d \in DOMAIN outcome : outcome[d] # "ok"}
WritesDone(outcome) == {d \in DOMAIN outcome : outcome[d] = "ok"}

\* Lines 2033-2061: the optional daily-summary sync.  upsert_daily_summary
\* returns False (and logs a warning) when its query or its write fails.
DailySummarySync ==
    /\ pc = "daily"
    /\ \E enabled \in BOOLEAN :
          IF ~enabled
          THEN UNCHANGED << daily_summaries, run_stats, warn_log, sub_writes >>
          ELSE IF AggregateRaises(activities)
          THEN /\ run_stats' = [run_stats EXCEPT !.daily_enabled = TRUE, !.warnings = @ + 1]
               /\ warn_log' = warn_log + 1
               /\ UNCHANGED << daily_summaries, sub_writes >>
          ELSE LET daily == aggregate_daily_summaries(activities, ann)
               IN  \E outcome \in [DOMAIN daily -> UpsertOutcomes] :
                      /\ daily_summaries' = Some(daily)
                      /\ run_stats' = [run_stats EXCEPT
                                          !.daily_enabled = TRUE,
                                          !.days_processed = Cardinality(DOMAIN daily),
                                          !.daily_failed = Cardinality(Failures(outcome))]
                      /\ warn_log' = warn_log + Cardinality(Failures(outcome))
                      /\ sub_writes' = sub_writes + Cardinality(WritesDone(outcome))
    /\ pc' = "athlete"
    /\ UNCHANGED << durable, run, exit_code, setup_error, loopvars, summary_logged,
                    failure_threshold, athlete_metrics >>
    /\ UNCHANGED components

\* Lines 2063-2110: the optional athlete-metrics sync.
AthleteMetricsSync ==
    /\ pc = "athlete"
    /\ \E enabled \in BOOLEAN :
          IF ~enabled
          THEN UNCHANGED << daily_summaries, athlete_metrics, run_stats, warn_log, sub_writes >>
          ELSE IF daily_summaries = None /\ AggregateRaises(activities)
          THEN /\ run_stats' = [run_stats EXCEPT !.athlete_enabled = TRUE,
                                                 !.athlete_failed = TRUE,
                                                 !.warnings = @ + 1]
               /\ warn_log' = warn_log + 1
               /\ UNCHANGED << daily_summaries, athlete_metrics, sub_writes >>
          ELSE LET daily == IF daily_summaries = None
                            THEN aggregate_daily_summaries(activities, ann)
                            ELSE daily_summaries[1]
               IN  \E today \in Todays, outcome \in UpsertOutcomes :
                      /\ daily_summaries' = Some(daily)
                      /\ athlete_metrics' = Some(AthleteMetrics(daily, today))
                      /\ IF outcome = "ok"
                         THEN /\ run_stats' = [run_stats EXCEPT !.athlete_enabled = TRUE,
                                                                !.upserted = TRUE]
                              /\ warn_log' = warn_log
                         ELSE /\ run_stats' = [run_stats EXCEPT !.athlete_enabled = TRUE,
                                                                !.athlete_failed = TRUE,
                                                                !.warnings = @ + 1]
                              /\ warn_log' = warn_log + 2
                      /\ sub_writes' = sub_writes + (IF outcome = "ok" THEN 1 ELSE 0)
    /\ pc' = "persist"
    /\ UNCHANGED << durable, run, exit_code, setup_error, loopvars, summary_logged,
                    failure_threshold >>
    /\ UNCHANGED components

RETENTION_DAYS == 30
Elapsed == {1, 31}   \* days since the file was last written

\* A record's timestamp is kept as its age: timestamp = now - age.
Aged(all_stats, elapsed) ==
    [i \in 1 .. Len(all_stats) |-> [all_stats[i] EXCEPT !.age = @ + elapsed]]

\* A variant of AppendAndPrune that keeps every record.
AppendAndPrune_NoPrune(all_stats, record) == Append(all_stats, record)

\* Lines 2132-2140: append, then keep the records with timestamp > now - 30 days.
AppendAndPrune(all_stats, record) ==
    SelectSeq(Append(all_stats, record), LAMBDA r : r.age < RETENTION_DAYS)

\* A variant of ReturnCode that turns a recorded sub-sync failure into exit 1.
ReturnCode_FailOnWarning(rs) ==
    IF rs.warnings > 0 \/ rs.daily_failed > 0 \/ rs.athlete_failed THEN 1 ELSE 0

\* The function returns; the interpreter exits 0.
ReturnCode(rs) == 0

\* Lines 2112-2148: persist the run record; a failure to write is swallowed.
\* The time that passed since the last write is drawn here, where it is read.
PersistRunStats ==
    /\ pc = "persist"
    /\ \E elapsed \in Elapsed, written \in BOOLEAN :
          stats_file' = IF written
                        THEN AppendAndPrune(Aged(stats_file, elapsed), [run |-> run, age |-> 0])
                        ELSE Aged(stats_file, elapsed)
    /\ pc' = "done"
    /\ exit_code' = Some(ReturnCode(run_stats))
    /\ UNCHANGED << rows, run, setup_error, loopvars, tailvars >>
    /\ UNCHANGED components

Next ==
    \/ StartRun
    \/ InitClients
    \/ FetchActivities
    \/ Prepare
    \/ EnrichActivity
    \/ UpsertActivity
    \/ LogSummary
    \/ FailureGate
    \/ DailySummarySync
    \/ AthleteMetricsSync
    \/ PersistRunStats

Spec == Init /\ [][Next]_vars

\* ---------------------------------------- the enrichment on drawn inputs
\* A stream of n samples, one every step seconds: 130 bpm in its first half and
\* 150 bpm in its second, at a steady 3.0 m/s when the velocity is present.
GenStream(n, step, with_vel) ==
    [hr |-> [i \in 1 .. n |-> IF 2 * i <= n THEN 130 ELSE 150],
     time |-> [i \in 1 .. n |-> (i - 1) * step],
     vel |-> IF with_vel THEN [i \in 1 .. n |-> 30] ELSE <<>>]

\* Inputs of the quality classification: sample counts around 120, sampling
\* steps, moving times whose 80% lies on both sides of the 600 s floor.
QualityInputs ==
    [n : {1, 2, 60, 119, 120}, step : {1, 5, 10, 16},
     moving_time : {300, 600, 750, 1200, 1800}, has_heartrate : BOOLEAN]

\* Inputs of the enrichment: sports in and out of the pace set, moving times and
\* distances on both sides of the minima, streams with and without coverage.
AnnotateInputs ==
    [type : {"Run", "Ride", "WeightTraining"}, has_heartrate : BOOLEAN,
     moving_time : {DRIFT_MIN_MOVING_TIME_MINUTES * SECONDS_PER_MINUTE - 1,
                    DRIFT_MIN_MOVING_TIME_MINUTES * SECONDS_PER_MINUTE},
     distance : {MinDistanceFloor, MinDistanceFloor + 1},
     stream : {None, Some(GenStream(4, 400, TRUE)), Some(GenStream(4, 400, FALSE)),
               Some(GenStream(4, 30, TRUE))}]

InitCalc ==
    /\ Init
    /\ calc = NoCalc

\* The classification of lines 1864-1882 applied to a fetched stream.
ClassifyQuality ==
    /\ calc.op = "none"
    /\ \E q \in QualityInputs :
          LET s == GenStream(q.n, q.step, FALSE)
              a == [has_heartrate |-> q.has_heartrate, moving_time |-> q.moving_time]
          IN  calc' = [op |-> "quality", a |-> a, stream |-> s,
                       quality |-> HrDataQuality(a, s)]
    /\ UNCHANGED << syncvars, http, client, notion >>

\* The enrichment of lines 1834-1923 and the drift properties of the payload
\* built from it.
EnrichDrawn ==
    /\ calc.op = "none"
    /\ \E a \in AnnotateInputs, zones \in {None, Some(AthleteZones)} :
          /\ ~EnrichRaises(a, zones)
          /\ calc' = [op |-> "annotate", a |-> a, zones |-> zones,
                      ann |-> Annotate(a, zones),
                      drift_properties |-> DriftProperties(Annotate(a, zones))]
    /\ UNCHANGED << syncvars, http, client, notion >>

\* Zone definitions handed to compute_hr_zone_minutes: none, an empty list,
\* three bands that cover every rate, and bands that leave the low rates out.
TestZones == << [min |-> 0, max |-> 100], [min |-> 100, max |-> 150],
                [min |-> 150, max |-> NoMax] >>
GapZones == << [min |-> 100, max |-> 150], [min |-> 150, max |-> NoMax] >>
ZoneInputs == {None, Some(<<>>), Some(TestZones), Some(GapZones)}

\* Streams handed to compute_hr_zone_minutes: rates below, inside and on the
\* bounds of the bands; time arrays that are shorter than the rates, unevenly
\* spaced, or not increasing.
ZoneStreams ==
    {None} \cup
    {Some([hr |-> h, time |-> t, vel |-> <<>>]) :
        h \in UNION {[1 .. n -> {90, 110, 150, 160}] : n \in {0, 2, 3, 4}},
        t \in {<<0>>, <<0, 30>>, <<0, 10, 70>>, <<0, 30, 60, 90>>, <<0, 30, 20, 50>>}}

\* compute_hr_zone_minutes (lines 468-504) applied to a drawn stream.
ZoneMinutesDrawn ==
    /\ calc.op = "none"
    /\ \E hr_stream \in ZoneStreams, zones \in ZoneInputs :
          LET result == compute_hr_zone_minutes(hr_stream, zones)
          IN  calc' = [op |-> "zone_minutes", hr_stream |-> hr_stream, zones |-> zones,
                       zone_counts |-> IF result = None THEN None
                                       ELSE Some(zone_counts(hr_stream[1], zones[1])),
                       result |-> result]
    /\ UNCHANGED << syncvars, http, client, notion >>

\* Histograms handed to compute_zone_weighted_load_points, in hundredths of a
\* minute as compute_hr_zone_minutes rounds them: none, empty, of five zones, of
\* fewer and of more.
LoadHistograms ==
    {None, Some(<<>>), Some(<<100, 0, 50>>), Some(<<0, 0, 0, 0, 0, 100>>)}
    \cup {Some(h) : h \in [1 .. 5 -> {0, 1, 100}]}

\* compute_zone_weighted_load_points (lines 636-656) applied to a drawn histogram.
LoadPointsDrawn ==
    /\ calc.op = "none"
    /\ \E zone_minutes \in LoadHistograms :
          calc' = [op |-> "load_points", zone_minutes |-> zone_minutes,
                   result |-> compute_zone_weighted_load_points(zone_minutes)]
    /\ UNCHANGED << syncvars, http, client, notion >>

\* Streams handed to compute_hr_drift: velocities of 0, 0.1 and 3.0 m/s; time
\* arrays that stand still, move once, go back, advance by even or uneven
\* steps, or are shorter than the rest.
DriftStreams ==
    {[hr |-> <<130, 130, 150, 150>>, time |-> t, vel |-> v] :
        t \in {<<7>>, <<0, 10>>, <<0, 0, 0, 0>>, <<0, 0, 0, 30>>, <<0, 10, 20, 30>>,
               <<0, 30, 20, 50>>, <<0, 10, 40, 100>>, <<5, 6, 7, 50>>},
        v \in UNION {[1 .. n -> {0, 1, 30}] : n \in {3, 4}}}

\* compute_hr_drift (lines 506-604) applied to a drawn stream.
HrDriftDrawn ==
    /\ calc.op = "none"
    /\ \E s \in DriftStreams :
          calc' = [op |-> "hr_drift", stream |-> s, halves |-> DriftHalves(s),
                   result |-> compute_hr_drift(s, 1800, 5000)]
    /\ UNCHANGED << syncvars, http, client, notion >>

\* Daily summaries handed to compute_rolling_loads on day 30: any of the days
\* just outside and just inside the two windows, today and tomorrow, with a
\* total load of 0, 5 or 10 points.
RollingToday == 30
RollingDailies ==
    UNION {[D -> {[ZeroDay EXCEPT !.total_load_pts = l] : l \in {0, 500, 1000}}] :
              D \in SUBSET {RollingToday - 28, RollingToday - 27, RollingToday - 7,
                            RollingToday - 6, RollingToday, RollingToday + 1}}

\* compute_rolling_loads (lines 742-781) applied to drawn summaries.
RollingLoadsDrawn ==
    /\ calc.op = "none"
    /\ \E daily \in RollingDailies :
          calc' = [op |-> "rolling_loads", daily |-> daily, today |-> RollingToday,
                   result |-> compute_rolling_loads(daily, RollingToday)]
    /\ UNCHANGED << syncvars, http, client, notion >>

\* The next input is drawn.
CalcDone ==
    /\ calc.op # "none"
    /\ calc' = NoCalc
    /\ UNCHANGED << syncvars, http, client, notion >>

NextCalc ==
    \/ ClassifyQuality
    \/ EnrichDrawn
    \/ ZoneMinutesDrawn
    \/ LoadPointsDrawn
    \/ HrDriftDrawn
    \/ RollingLoadsDrawn
    \/ CalcDone

SpecCalc == InitCalc /\ [][NextCalc]_vars

\* ------------------------------------------------ http_request_with_retries
\* What one requests.request can do: answer with a status, or raise.
Statuses == {200, 404, 429, 503}
RequestErrors == {"Timeout", "ConnectionError", "TooManyRedirects"}
AttemptOutcomes ==
    [kind : {"response"}, status : Statuses] \cup [kind : {"exception"}, type : RequestErrors]

\* A variant of retry_statuses that also retries on 404.
retry_statuses_With404 == {404, 429, 500, 502, 503, 504}

\* Line 197.
retry_statuses == {429, 500, 502, 503, 504}

\* Lines 202-222: what the try body raises for an outcome; None when it returns
\* the response.  An HTTPError carries the response, hence its status.
RaisedBy(outcome) ==
    IF outcome.kind = "exception"
    THEN Some([type |-> outcome.type, status |-> None])
    ELSE IF outcome.status \in retry_statuses \/ outcome.status >= 400
    THEN Some([type |-> "HTTPError", status |-> Some(outcome.status)])
    ELSE None

\* Line 224: the exceptions of the first except clause.
CaughtForRetry(e) == e.type \in {"Timeout", "ConnectionError", "HTTPError"}

\* A variant of FailsFast that lets every HTTP error be retried.
FailsFast_Never(e) == FALSE

\* Line 232: a non-retryable HTTPError is raised at once.
FailsFast(e) ==
    /\ e.type = "HTTPError"
    /\ e.status # None
    /\ e.status[1] \notin retry_statuses

\* Line 235.
Exhausted(attempts, max_retries) == attempts > max_retries

\* Lines 244-261: the sleep before the next request, in hundredths of a second.
SleepSeconds(status, attempts, backoff_factor, jitter) ==
    IF status = Some(429)
    THEN 100 * HTTP_RATE_LIMIT_BACKOFF_SECONDS * attempts
    ELSE backoff_factor * 2 ^ (attempts - 1) + jitter

Hosts == {"strava", "other"}
Jitters == {0, HTTP_BACKOFF_JITTER_MAX}

\* A call starts: url (its host), max_retries and backoff_factor are arguments.
HttpCall ==
    /\ http.state \in {"idle", "returned", "raised"}
    /\ \E host \in Hosts, max_retries \in {0 - 1, 0, 1, HTTP_MAX_RETRIES},
          backoff_factor \in {HTTP_BACKOFF_FACTOR, 2 * HTTP_BACKOFF_FACTOR} :
          http' = [state |-> "request", host |-> host, max_retries |-> max_retries,
                   backoff_factor |-> backoff_factor, attempts |-> 0,
                   history |-> <<>>, sleeps |-> <<>>, last_exc |-> None, result |-> None]
    /\ UNCHANGED << syncvars, client, calc, notion >>

\* Lines 200-265: one turn of the while loop, the sleep included.
HttpAttempt ==
    /\ http.state = "request"
    /\ http.attempts <= http.max_retries
    /\ \E outcome \in AttemptOutcomes, jitter \in Jitters :
          LET raised == RaisedBy(outcome)
              history == Append(http.history, outcome)
          IN  IF raised = None
              THEN http' = [http EXCEPT !.state = "returned", !.history = history,
                                        !.result = Some(outcome)]
              ELSE IF ~CaughtForRetry(raised[1])
              THEN http' = [http EXCEPT !.state = "raised", !.history = history,
                                        !.result = raised]
              ELSE LET attempts == http.attempts + 1
                   IN  IF FailsFast(raised[1]) \/ Exhausted(attempts, http.max_retries)
                       THEN http' = [http EXCEPT !.state = "raised", !.history = history,
                                                 !.attempts = attempts,
                                                 !.last_exc = raised, !.result = raised]
                       ELSE http' = [http EXCEPT
                                        !.history = history,
                                        !.attempts = attempts,
                                        !.last_exc = raised,
                                        !.sleeps = Append(@,
                                            [status |-> raised[1].status,
                                             seconds |-> SleepSeconds(raised[1].status, attempts,
                                                                      http.backoff_factor, jitter)])]
    /\ UNCHANGED << syncvars, client, calc, notion >>

\* Lines 267-270: the loop ended without returning or raising (it never ran:
\* max_retries is negative).
HttpLoopEnded ==
    /\ http.state = "request"
    /\ http.attempts > http.max_retries
    /\ http' = [http EXCEPT !.state = "raised",
                            !.result = IF http.last_exc # None THEN http.last_exc
                                       ELSE Some([type |-> "RuntimeError", status |-> None])]
    /\ UNCHANGED << syncvars, client, calc, notion >>

NextHttp ==
    \/ HttpCall
    \/ HttpAttempt
    \/ HttpLoopEnded

SpecHttp == Init /\ [][NextHttp]_vars

\* ------------------------------------------------------------ StravaClient
\* access_token is None or one of the tokens the token endpoint hands out (it
\* may hand out the token the client already holds).
NoToken == 0
Tokens == {1, 2}

per_page == 200

\* Number of activities in the account's time window.
ListSizes == {0, 1, per_page, per_page + 1, 2 * per_page}

\* The listing endpoint: page number `page` of a window of n activities, the
\* activities being numbered 1 .. n.
PageOf(n, page) ==
    LET first == (page - 1) * per_page + 1
        last == Min2(page * per_page, n)
    IN  IF first > last THEN <<>> ELSE [i \in 1 .. (last - first + 1) |-> first + i - 1]

\* What a refresh request can do: answer with a token, answer without one, or
\* fail (http_request_with_retries raises).
RefreshOutcomes == {"ok", "missing_token", "request_failed"}

\* A variant of TokenAfterRefresh that stores whatever the response holds
\* before looking at it.
TokenAfterRefresh_StoredUnchecked(access_token, outcome, fresh) ==
    IF outcome = "ok" THEN fresh
    ELSE IF outcome = "missing_token" THEN NoToken
    ELSE access_token

\* _refresh_access_token, lines 300-335: self.access_token after the call.
TokenAfterRefresh(access_token, outcome, fresh) ==
    IF outcome = "ok" THEN fresh ELSE access_token

\* What a listing request can do: answer the page, answer 401, or fail otherwise.
ListOutcomes == {"ok", "unauthorized", "error"}

\* A variant of EndOfData that stops on an empty page only.
EndOfData_OnlyEmpty(page_activities) == page_activities = <<>>

\* Lines 357-365: the page that ends the pagination.
EndOfData(page_activities) ==
    page_activities = <<>> \/ Len(page_activities) < per_page

\* A variant of PageToRetry that moves on to the next page.
PageToRetry_Next(page) == page + 1

\* Lines 381-383: params is untouched by the handler, the same page is asked for.
PageToRetry(page) == page

\* StravaClient.__init__, lines 276-282: access_token is None, then one refresh.
ClientInit ==
    /\ client.state \in {"none", "init_raised"}
    /\ \E outcome \in RefreshOutcomes, fresh \in Tokens :
          LET token == TokenAfterRefresh(NoToken, outcome, fresh)
          IN  client' = [state |-> IF outcome = "ok" THEN "ready" ELSE "init_raised",
                         access_token |-> token,
                         trace |-> << [ev |-> "refresh", outcome |-> outcome,
                                       before |-> NoToken, after |-> token] >>]
    /\ UNCHANGED << syncvars, http, calc, notion >>

\* get_recent_activities, lines 337-350: the call starts at page 1.
ListCall ==
    /\ client.state \in {"ready", "returned", "raised"}
    /\ \E n \in ListSizes :
          client' = [state |-> "listing", access_token |-> client.access_token,
                     header_token |-> client.access_token, n |-> n, page |-> 1,
                     all_activities |-> <<>>, trace |-> <<>>]
    /\ UNCHANGED << syncvars, http, calc, notion >>

\* The client after a page was received (lines 355-367 and 384-391).
AfterPage(c, page_activities) ==
    IF page_activities = <<>> THEN [c EXCEPT !.state = "returned"]
    ELSE IF EndOfData(page_activities)
    THEN [c EXCEPT !.state = "returned", !.all_activities = @ \o page_activities]
    ELSE [c EXCEPT !.all_activities = @ \o page_activities, !.page = @ + 1]

Request(page, token, result, retry) ==
    [ev |-> "request", page |-> page, token |-> token, result |-> result, retry |-> retry]

\* Lines 350-395: one turn of the while loop, with its 401 handler.
ListPage ==
    /\ client.state = "listing"
    /\ \E outcome \in ListOutcomes, refresh \in RefreshOutcomes, fresh \in Tokens,
          again \in ListOutcomes :
          LET first == Request(client.page, client.header_token, outcome, FALSE)
              token == TokenAfterRefresh(client.access_token, refresh, fresh)
              refreshed == [ev |-> "refresh", outcome |-> refresh,
                            before |-> client.access_token, after |-> token]
              second == Request(PageToRetry(client.page), token, again, TRUE)
          IN  IF outcome = "ok"
              THEN client' = AfterPage([client EXCEPT !.trace = Append(@, first)],
                                       PageOf(client.n, client.page))
              ELSE IF outcome = "error"
              THEN client' = [client EXCEPT !.state = "raised", !.trace = Append(@, first)]
              ELSE IF refresh # "ok"
              THEN client' = [client EXCEPT !.state = "raised", !.access_token = token,
                                            !.trace = @ \o << first, refreshed >>]
              ELSE IF again # "ok"
              THEN client' = [client EXCEPT !.state = "raised", !.access_token = token,
                                            !.header_token = token,
                                            !.trace = @ \o << first, refreshed, second >>]
              ELSE client' = AfterPage([client EXCEPT
                                           !.access_token = token,
                                           !.header_token = token,
                                           !.trace = @ \o << first, refreshed, second >>],
                                       PageOf(client.n, PageToRetry(client.page)))
    /\ UNCHANGED << syncvars, http, calc, notion >>

NextClient ==
    \/ ClientInit
    \/ ListCall
    \/ ListPage

SpecClient == Init /\ [][NextClient]_vars

\* ------------------------------------ NotionSchemaCache and NotionClient
\* Property names of the three tables (lines 71-104, 144-154, 157-170); the
\* degree sign of the temperature property is left out.
NOTION_SCHEMA ==
    [name |-> "Name", activity_id |-> "Activity ID", date |-> "Date", sport |-> "Sport",
     duration_min |-> "Duration (min)", distance_mi |-> "Distance (mi)",
     elevation_ft |-> "Elevation (ft)", strava_url |-> "Strava URL",
     last_synced |-> "Last Synced", avg_hr |-> "Avg HR", max_hr |-> "Max HR",
     avg_pace_min_per_mi |-> "Avg Pace (min/mi)", moving_time_min |-> "Moving Time (min)",
     hr_drift_pct |-> "HR Drift (%)", hr_1st_half_bpm |-> "HR 1st Half (bpm)",
     hr_2nd_half_bpm |-> "HR 2nd Half (bpm)", speed_1st_half_mph |-> "Speed 1st Half (mph)",
     speed_2nd_half_mph |-> "Speed 2nd Half (mph)", drift_eligible |-> "Drift Eligible",
     hr_data_quality |-> "HR Data Quality", temperature_f |-> "Temperature (F)",
     weather_conditions |-> "Weather Conditions", sync_status |-> "Sync Status",
     photo_url |-> "Photo URL", load_pts |-> "Load (pts)"]

\* NOTION_SCHEMA["hr_zone_min"].format(zone=zone_num)
HrZoneName(zone_num) ==
    << "HR Zone 1 (min)", "HR Zone 2 (min)", "HR Zone 3 (min)", "HR Zone 4 (min)",
       "HR Zone 5 (min)" >>[zone_num]

DAILY_SUMMARY_SCHEMA ==
    [date |-> "Date", total_duration_min |-> "Total Duration (min)",
     total_moving_time_min |-> "Total Moving Time (min)",
     total_distance_mi |-> "Total Distance (mi)",
     total_elevation_ft |-> "Total Elevation (ft)", session_count |-> "Session Count",
     load_pts |-> "Load (pts)", load_confidence |-> "Load Confidence", notes |-> "Notes"]

ATHLETE_METRICS_SCHEMA ==
    [name |-> "Name", updated_at |-> "Updated At", load_7d |-> "Load 7d",
     load_28d |-> "Load 28d", load_balance |-> "Load Balance", notes |-> "Notes"]

\* The property sets a destination database can have: every property of the
\* three tables, a few of them, and columns of the user's own.
AllProperties ==
    {NOTION_SCHEMA[k] : k \in DOMAIN NOTION_SCHEMA} \cup {HrZoneName(z) : z \in 1 .. 5}
    \cup {DAILY_SUMMARY_SCHEMA[k] : k \in DOMAIN DAILY_SUMMARY_SCHEMA}
    \cup {ATHLETE_METRICS_SCHEMA[k] : k \in DOMAIN ATHLETE_METRICS_SCHEMA}
SchemaChoices ==
    {AllProperties,
     {"Name", "Activity ID", "Date", "Sport", "Sync Status", "Session Count", "Load 7d"},
     {"Name", "Date", "Tags"}}

\* What databases.retrieve, called through _notion_call_with_retries, ends with
\* (lines 1070-1102): a dict with its properties, something that is not a dict,
\* or an exception.
RetrieveOutcomes ==
    {[kind |-> "properties", keys |-> S] : S \in SchemaChoices \cup {{}}}
    \cup {[kind |-> "not_dict", keys |-> {}], [kind |-> "raises", keys |-> {}]}

\* The value get_schema stores for the database (lines 1075-1101).
Stored(outcome) ==
    IF outcome.kind = "properties" /\ outcome.keys # {} THEN Some(outcome.keys) ELSE None

\* A variant of CacheHit that looks a database up again when None was stored.
CacheHit_OnlyLoaded(n, database_id) ==
    database_id \in n.cached /\ n.schema[database_id] # None

\* Line 1066.
CacheHit(n, database_id) == database_id \in n.cached

\* get_schema (lines 1054-1103) on the cache n; outcome is what the retrieval
\* ends with when it is made.  initialize (lines 1046-1051) replaces the key
\* and the client and leaves _cache as it is.
get_schema(n, api_key, database_id, outcome) ==
    LET n1 == IF n.api_key # api_key THEN [n EXCEPT !.api_key = api_key] ELSE n
    IN  IF CacheHit(n1, database_id) THEN n1
        ELSE [n1 EXCEPT !.cached = @ \cup {database_id},
                        !.schema[database_id] = Stored(outcome),
                        !.retrievals[database_id] = @ + 1]

\* No call on the destination is being followed.
NotionFree == notion.call.state = "idle" /\ notion.last.op = "none"

\* _ensure_schema_loaded of a NotionClient built with (api_key, database_id),
\* called on its own.
EnsureSchemaLoaded ==
    /\ NotionFree
    /\ \E api_key \in ApiKeys, database_id \in DatabaseIds, outcome \in RetrieveOutcomes :
          LET n == get_schema(notion, api_key, database_id, outcome)
          IN  notion' = [n EXCEPT !.last =
                  [op |-> "get_schema", database_id |-> database_id,
                   cached_before |-> database_id \in notion.cached,
                   schema_before |-> notion.schema[database_id],
                   contacted |-> n.retrievals # notion.retrievals,
                   result |-> n.schema[database_id]]]
    /\ UNCHANGED << syncvars, http, client, calc >>

\* ------------------------------------------------ _notion_call_with_retries
\* What one invocation of the wrapped SDK method does: it returns, raises an
\* APIResponseError with a status, or raises some other exception.
ApiStatuses == {400, 404, 429, 503}
Invocations ==
    {[kind |-> "returns", status |-> 200], [kind |-> "exception", status |-> 0]}
    \cup {[kind |-> "api_error", status |-> s] : s \in ApiStatuses}

\* A variant of NotionRetries that retries whatever attempts were made.
NotionRetries_Unbounded(e, attempts, max_retries) ==
    e.kind = "api_error" /\ e.status \in {429, 500, 502, 503, 504}

\* Line 1173: the error is one the loop sleeps on and retries.
NotionRetries(e, attempts, max_retries) ==
    /\ e.kind = "api_error"
    /\ e.status \in {429, 500, 502, 503, 504}
    /\ attempts < max_retries

\* Line 1167: _notion_call_with_retries is entered, attempts = 0.
NotionCall ==
    /\ NotionFree
    /\ \E max_retries \in {0 - 1, 0, 1, HTTP_MAX_RETRIES} :
          notion' = [notion EXCEPT !.call =
              [state |-> "calling", max_retries |-> max_retries, attempts |-> 0,
               seen |-> <<>>]]
    /\ UNCHANGED << syncvars, http, client, calc >>

\* Lines 1168-1189: one pass of the loop body.  seen lists what each invocation
\* made so far did.
NotionAttempt ==
    /\ notion.call.state = "calling"
    /\ notion.call.attempts <= notion.call.max_retries
    /\ \E e \in Invocations :
          LET c == notion.call
              seen == Append(c.seen, e)
          IN  notion' = [notion EXCEPT !.call =
                  IF e.kind = "returns"
                  THEN [c EXCEPT !.state = "returned", !.seen = seen]
                  ELSE IF NotionRetries(e, c.attempts, c.max_retries)
                  THEN [c EXCEPT !.attempts = @ + 1, !.seen = seen]
                  ELSE [c EXCEPT !.state = "raised", !.seen = seen]]
    /\ UNCHANGED << syncvars, http, client, calc >>

\* Line 1168: the loop condition fails and the function falls off its end,
\* returning None.
NotionLoopEnded ==
    /\ notion.call.state = "calling"
    /\ notion.call.attempts > notion.call.max_retries
    /\ notion' = [notion EXCEPT !.call.state = "fell_through"]
    /\ UNCHANGED << syncvars, http, client, calc >>

\* The caller has the result; the next call can be followed.
NotionCallDone ==
    /\ notion.call.state \in {"returned", "raised", "fell_through"}
    /\ notion' = [notion EXCEPT !.call = NotionIdle]
    /\ UNCHANGED << syncvars, http, client, calc >>

\* ------------------------------------------------------------ the upserts
\* What a call made through _notion_call_with_retries ends with for its caller:
\* the page, an APIResponseError that was not or no longer retried (a 400 may
\* say that a property does not exist), or another exception.
WriteOutcomes ==
    {[kind |-> "returns", status |-> 200, names_property |-> FALSE],
     [kind |-> "exception", status |-> 0, names_property |-> FALSE],
     [kind |-> "api_error", status |-> 400, names_property |-> TRUE]}
    \cup {[kind |-> "api_error", status |-> s, names_property |-> FALSE] : s \in ApiStatuses}

\* The activities handed to upsert_activity: enriched payloads with and without
\* zone minutes, drift and load, and with or without heart rate summary, photo
\* and weather.
PageInputs ==
    {[a |-> x, ann |-> Annotate(x, Some(AthleteZones)),
      average_heartrate |-> IF extras THEN Some(140) ELSE None,
      max_heartrate |-> IF extras THEN Some(170) ELSE None,
      photo_url |-> extras, weather |-> extras] :
        x \in {y \in AnnotateInputs :
                 /\ y.type \in {"Run", "WeightTraining"}
                 /\ y.has_heartrate
                 /\ y.moving_time = DRIFT_MIN_MOVING_TIME_MINUTES * SECONDS_PER_MINUTE
                 /\ y.distance = MinDistanceFloor + 1
                 /\ y.stream \in {None, Some(GenStream(4, 400, TRUE))}},
        extras \in BOOLEAN}

\* _convert_activity_to_properties (lines 1371-1521): the names of the properties
\* it generates for the activity p.
ConvertedProperties(p) ==
    LET running_sports == {"Run", "TrailRun", "Walk", "Hike"}
        required == {"name", "activity_id", "date", "sport", "duration_min", "distance_mi",
                     "elevation_ft", "strava_url", "last_synced"}
        optional ==
            (IF p.average_heartrate # None THEN {"avg_hr"} ELSE {})
            \cup (IF p.max_heartrate # None THEN {"max_hr"} ELSE {})
            \cup (IF p.a.type \in running_sports /\ p.a.distance > 0 /\ p.a.moving_time > 0
                  THEN {"avg_pace_min_per_mi"} ELSE {})
            \cup (IF p.a.moving_time # 0 THEN {"moving_time_min"} ELSE {})
            \cup DriftProperties(p.ann)
            \cup {"drift_eligible", "hr_data_quality"}
            \cup (IF p.ann.load_pts # None /\ p.ann.load_pts[1] > 0 THEN {"load_pts"} ELSE {})
            \cup (IF p.photo_url THEN {"photo_url"} ELSE {})
            \cup (IF p.weather THEN {"temperature_f", "weather_conditions"} ELSE {})
    IN  {NOTION_SCHEMA[k] : k \in required \cup optional}
        \cup (IF p.ann.hr_zone_minutes # None
              THEN {HrZoneName(z) : z \in DOMAIN p.ann.hr_zone_minutes[1]} ELSE {})

\* A variant of ActivityPayload that sends what was generated whatever the
\* schema holds.
ActivityPayload_Unfiltered(properties, allowed_properties) ==
    properties \cup {NOTION_SCHEMA.sync_status}

\* Lines 1296-1328 of upsert_activity: the properties sent, from the generated
\* ones and the schema.
ActivityPayload(properties, allowed_properties) ==
    LET with_status ==
            IF allowed_properties # None /\ NOTION_SCHEMA.sync_status \in allowed_properties[1]
            THEN properties \cup {NOTION_SCHEMA.sync_status} ELSE properties
    IN  IF allowed_properties # None
        THEN with_status \cap allowed_properties[1]
        ELSE with_status \ {NOTION_SCHEMA.load_pts}

\* A variant of UpsertReturn that re-raises the API errors that do not name a
\* missing property.
UpsertReturn_Reraises(outcome) ==
    IF outcome.kind = "returns" THEN [returned |-> Some(TRUE), level |-> "none"]
    ELSE IF outcome.kind = "api_error" /\ ~(outcome.status = 400 /\ outcome.names_property)
    THEN [returned |-> None, level |-> "error"]
    ELSE [returned |-> Some(FALSE), level |-> "warning"]

\* Lines 1330-1369 of upsert_activity: what it returns for the outcome of its
\* write, and the level it logs at; returned is None when it raises.
UpsertReturn(outcome) ==
    IF outcome.kind = "returns" THEN [returned |-> Some(TRUE), level |-> "none"]
    ELSE IF outcome.kind = "api_error" /\ outcome.status = 400 /\ outcome.names_property
    THEN [returned |-> Some(FALSE), level |-> "warning"]
    ELSE [returned |-> Some(FALSE), level |-> "error"]

\* upsert_activity (lines 1288-1369) on a client of the activities database,
\* and what the loop counts for it (lines 1965-1982).
UpsertActivityPage ==
    /\ NotionFree
    /\ \E api_key \in ApiKeys, p \in PageInputs, existing \in BOOLEAN,
          retrieved \in RetrieveOutcomes, outcome \in WriteOutcomes :
          LET n == get_schema(notion, api_key, "activities", retrieved)
              allowed_properties == n.schema["activities"]
              properties == ConvertedProperties(p)
              ret == UpsertReturn(outcome)
          IN  notion' = [n EXCEPT !.last =
                  [op |-> "upsert_activity", generated |-> properties,
                   retrieval |-> IF CacheHit(notion, "activities") THEN "cached"
                                 ELSE retrieved.kind,
                   allowed |-> allowed_properties,
                   call |-> UpsertCall(existing),
                   sent |-> Some(ActivityPayload(properties, allowed_properties)),
                   outcome |-> outcome, returned |-> ret.returned,
                   counted |-> IF ret.returned = None THEN "failed"
                               ELSE UpsertResult(ret.returned[1], existing)]]
    /\ UNCHANGED << syncvars, http, client, calc >>

\* The daily summaries handed to upsert_daily_summary: aggregate_daily_summaries
\* counts a load workout only among the eligible cardio sessions (lines 721-729)
\* and always sets the totals.
DailyInputs ==
    {s \in [session_count : {2}, eligible_cardio_count : 0 .. 2, load_workouts_count : 0 .. 2] :
        s.load_workouts_count <= s.eligible_cardio_count}

\* A variant of LoadConfidence that is "High" as soon as one session produced
\* load.
LoadConfidence_HighOnAnyLoad(summary) ==
    IF summary.eligible_cardio_count > 0 /\ summary.load_workouts_count > 0
    THEN "High" ELSE "Low"

\* Lines 1566-1586 of upsert_daily_summary: the confidence label.
LoadConfidence(summary) ==
    IF summary.eligible_cardio_count > 0
    THEN IF summary.load_workouts_count = summary.eligible_cardio_count THEN "High"
         ELSE IF summary.load_workouts_count > 0 THEN "Medium"
         ELSE "Low"
    ELSE "Low"

\* A variant of FilterToSchema that keeps every property.
FilterToSchema_KeepAll(properties, allowed_properties) == properties

\* Lines 1592-1596 and 1676-1680: the properties kept for the write.
FilterToSchema(properties, allowed_properties) ==
    IF allowed_properties # None THEN properties \cap allowed_properties[1] ELSE properties

\* Lines 1538-1590: the names of the properties built for a summary.
DailyProperties(summary) ==
    {DAILY_SUMMARY_SCHEMA[k] :
        k \in {"date", "session_count", "total_duration_min", "total_moving_time_min",
               "total_distance_mi", "total_elevation_ft", "load_pts", "load_confidence"}}

\* What the query for the existing row and the write after it end with.
QueryThenWriteOutcomes == {[kind |-> "query_raises", status |-> 0, names_property |-> FALSE]}
                          \cup WriteOutcomes

\* upsert_daily_summary (lines 1523-1629) on a client of the daily database.
UpsertDailySummary ==
    /\ NotionFree
    /\ \E api_key \in ApiKeys, summary \in DailyInputs, retrieved \in RetrieveOutcomes,
          outcome \in QueryThenWriteOutcomes :
          LET n == get_schema(notion, api_key, "daily", retrieved)
              allowed_properties == n.schema["daily"]
              properties == FilterToSchema(DailyProperties(summary), allowed_properties)
          IN  notion' = [n EXCEPT !.last =
                  [op |-> "upsert_daily_summary", summary |-> summary,
                   allowed |-> allowed_properties,
                   confidence |-> LoadConfidence(summary),
                   sent |-> IF outcome.kind = "query_raises" THEN None ELSE Some(properties),
                   outcome |-> outcome,
                   returned |-> Some(outcome.kind = "returns")]]
    /\ UNCHANGED << syncvars, http, client, calc >>

\* The metrics handed to upsert_athlete_metrics (lines 2077-2094): each load is
\* a number or None.
MetricsInputs ==
    {AthleteMetrics(daily, RollingToday) :
        daily \in {d \in RollingDailies :
                      /\ DOMAIN d \in {{}, {RollingToday}, {RollingToday - 27},
                                        {RollingToday - 27, RollingToday}}
                      /\ \A x \in DOMAIN d : d[x].total_load_pts > 0}}

\* Lines 1645-1674: the names of the properties built for the athlete row.
MetricsProperties(metrics) ==
    {ATHLETE_METRICS_SCHEMA[k] :
        k \in {"name", "updated_at", "notes"}
              \cup {f \in {"load_7d", "load_28d", "load_balance"} : metrics[f] # None}}

\* upsert_athlete_metrics (lines 1631-1713) on a client of the metrics database.
UpsertAthleteMetrics ==
    /\ NotionFree
    /\ \E api_key \in ApiKeys, metrics \in MetricsInputs, retrieved \in RetrieveOutcomes,
          outcome \in QueryThenWriteOutcomes :
          LET n == get_schema(notion, api_key, "metrics", retrieved)
              allowed_properties == n.schema["metrics"]
              properties == FilterToSchema(MetricsProperties(metrics), allowed_properties)
          IN  notion' = [n EXCEPT !.last =
                  [op |-> "upsert_athlete_metrics", metrics |-> metrics,
                   allowed |-> allowed_properties,
                   sent |-> IF outcome.kind = "query_raises" THEN None ELSE Some(properties),
                   outcome |-> outcome,
                   returned |-> Some(outcome.kind = "returns")]]
    /\ UNCHANGED << syncvars, http, client, calc >>

\* The method has returned to its caller; the next one can be followed.
NotionReturned ==
    /\ notion.last.op # "none"
    /\ notion' = [notion EXCEPT !.last = [op |-> "none"]]
    /\ UNCHANGED << syncvars, http, client, calc >>

NextNotion ==
    \/ EnsureSchemaLoaded
    \/ NotionCall
    \/ NotionAttempt
    \/ NotionLoopEnded
    \/ NotionCallDone
    \/ UpsertActivityPage
    \/ UpsertDailySummary
    \/ UpsertAthleteMetrics
    \/ NotionReturned

SpecNotion == Init /\ [][NextNotion]_vars

\* ------------------------------------------- the run-statistics log and report
\* Run records as the report reads them.  A section a record lacks is None; the
\* workouts section is a function from the counters it holds to their values.
\* A message is the sequence of its characters.
WorkoutCounters == {"fetched", "created", "updated", "skipped", "failed"}

LongMessage == [i \in 1 .. 60 |-> 1]
LongMessageTail == [i \in 1 .. 60 |-> IF i = 55 THEN 2 ELSE 1]
ShortMessage == << 3, 4 >>

RunRecords ==
    { [age |-> 0,
       workouts |-> Some([n \in WorkoutCounters |->
                            IF n = "fetched" THEN 3 ELSE IF n = "skipped" THEN 0 ELSE 1]),
       daily_summary |-> Some([enabled |-> TRUE, days_processed |-> 2, failed |-> 1]),
       athlete_metrics |-> Some([enabled |-> TRUE, upserted |-> TRUE, failed |-> FALSE]),
       warnings |-> Some(1),
       errors |-> Some(<< LongMessage, LongMessageTail >>)],
      [age |-> 3,
       workouts |-> None, daily_summary |-> None, athlete_metrics |-> None,
       warnings |-> None, errors |-> None],
      [age |-> 7,
       workouts |-> Some([n \in {"fetched"} |-> 2]),
       daily_summary |-> Some([enabled |-> FALSE, days_processed |-> 5, failed |-> 4]),
       athlete_metrics |-> Some([enabled |-> TRUE, upserted |-> FALSE, failed |-> TRUE]),
       warnings |-> Some(0),
       errors |-> Some(<< ShortMessage >>)],
      [age |-> 8,
       workouts |-> Some([n \in WorkoutCounters |-> 1]),
       daily_summary |-> Some([enabled |-> TRUE, days_processed |-> 1, failed |-> 0]),
       athlete_metrics |-> Some([enabled |-> FALSE, upserted |-> TRUE, failed |-> TRUE]),
       warnings |-> Some(2),
       errors |-> Some(<< ShortMessage, LongMessage >>)] }

MaxReportRuns == 3
ReportLogs == UNION {[1 .. n -> RunRecords] : n \in 0 .. MaxReportRuns}
ReportDays == {3, 7}

\* A variant of filter_weekly_stats that drops the record on the cutoff.
filter_weekly_stats_Strict(all_stats, days) ==
    SelectSeq(all_stats, LAMBDA s : s.age < days)

\* filter_weekly_stats (weekly_status_report.py lines 47-53): timestamp >= cutoff,
\* where timestamp = now - age and cutoff = now - days.
filter_weekly_stats(all_stats, days) ==
    SelectSeq(all_stats, LAMBDA s : s.age <= days)

FilterDrawn ==
    /\ calc.op = "none"
    /\ \E all_stats \in ReportLogs, days \in ReportDays :
          calc' = [op |-> "filter_weekly", all_stats |-> all_stats, days |-> days,
                   result |-> filter_weekly_stats(all_stats, days)]
    /\ UNCHANGED << syncvars, http, client, notion >>

FINGERPRINT_CHARS == 50

\* A variant of Fingerprint that keeps the whole message.
Fingerprint_Whole(err) == err

\* Line 111: err[:50].
Fingerprint(err) == SubSeq(err, 1, Min2(Len(err), FINGERPRINT_CHARS))

\* dict.get(name, default) on a section that may be absent.
SectionOr(section, default) == IF section = None THEN default ELSE section[1]

\* Lines 108-112: the inner loop over one run's errors.
RECURSIVE CountFingerprints(_, _, _)
CountFingerprints(fingerprints, errors, i) ==
    IF i > Len(errors) THEN fingerprints
    ELSE LET fp == Fingerprint(errors[i])
             counted == [f \in DOMAIN fingerprints \cup {fp} |->
                            (IF f \in DOMAIN fingerprints THEN fingerprints[f] ELSE 0)
                            + (IF f = fp THEN 1 ELSE 0)]
         IN  CountFingerprints(counted, errors, i + 1)

AggZero ==
    [total_runs |-> 0,
     workouts |-> [n \in WorkoutCounters |-> 0],
     daily_summary |-> [enabled |-> FALSE, total_days |-> 0, total_failed |-> 0],
     athlete_metrics |-> [enabled |-> FALSE, total_upserted |-> 0, total_failed |-> 0],
     total_warnings |-> 0,
     total_errors |-> 0,
     error_fingerprints |-> [f \in {} |-> 0]]

\* Lines 79-112: one pass of the loop over the runs.
AggRun(agg, r) ==
    LET w == SectionOr(r.workouts, [n \in {} |-> 0])
        ds == r.daily_summary
        am == r.athlete_metrics
        errors == SectionOr(r.errors, << >>)
        ds_on == ds # None /\ ds[1].enabled
        am_on == am # None /\ am[1].enabled
    IN  [agg EXCEPT
           !.workouts = [n \in WorkoutCounters |-> @[n] + (IF n \in DOMAIN w THEN w[n] ELSE 0)],
           !.daily_summary =
               IF ds_on THEN [enabled |-> TRUE,
                              total_days |-> @.total_days + ds[1].days_processed,
                              total_failed |-> @.total_failed + ds[1].failed]
               ELSE @,
           !.athlete_metrics =
               IF am_on THEN [enabled |-> TRUE,
                              total_upserted |-> @.total_upserted
                                                 + (IF am[1].upserted THEN 1 ELSE 0),
                              total_failed |-> @.total_failed
                                               + (IF am[1].failed THEN 1 ELSE 0)]
               ELSE @,
           !.total_warnings = @ + SectionOr(r.warnings, 0),
           !.total_errors = @ + Len(errors),
           !.error_fingerprints = CountFingerprints(@, errors, 1)]

RECURSIVE AggFold(_, _, _)
AggFold(agg, weekly_stats, i) ==
    IF i > Len(weekly_stats) THEN agg
    ELSE AggFold(AggRun(agg, weekly_stats[i]), weekly_stats, i + 1)

\* aggregate_stats (weekly_status_report.py lines 56-114).
aggregate_stats(weekly_stats) ==
    IF weekly_stats = << >> THEN AggZero
    ELSE AggFold([AggZero EXCEPT !.total_runs = Len(weekly_stats)], weekly_stats, 1)

AggregateDrawn ==
    /\ calc.op = "none"
    /\ \E weekly_stats \in ReportLogs :
          calc' = [op |-> "aggregate", weekly_stats |-> weekly_stats,
                   result |-> aggregate_stats(weekly_stats)]
    /\ UNCHANGED << syncvars, http, client, notion >>

\* The stored logs the sync finds: records in the order they were appended, the
\* oldest first, each with the run that wrote it.
StoredAges == {0, 1, 29, 30, 31, 45}
StoredLogs ==
    {l \in UNION {[1 .. n -> [run : {0}, age : StoredAges]] : n \in 0 .. MaxReportRuns} :
        \A i \in 1 .. Len(l) - 1 : l[i].age >= l[i + 1].age}

\* Lines 2112-2148 applied to a stored log: the record of the current run is
\* appended and the log pruned and written.
PersistDrawn ==
    /\ calc.op = "none"
    /\ \E stored \in StoredLogs :
          LET before == [i \in 1 .. Len(stored) |-> [stored[i] EXCEPT !.run = i]]
              record == [run |-> Len(stored) + 1, age |-> 0]
          IN  calc' = [op |-> "persist", before |-> before, record |-> record,
                       after |-> AppendAndPrune(before, record)]
    /\ UNCHANGED << syncvars, http, client, notion >>

NextReport ==
    \/ FilterDrawn
    \/ AggregateDrawn
    \/ PersistDrawn
    \/ CalcDone

SpecReport == Init /\ [][NextReport]_vars

\* -------------------------------------------------------------- WeatherClient
\* The hour of an entry whose "time" string does not parse.
BadTime == 0 - 1

StartHours == {0, 10, 23}
EntryHours == {BadTime, 0, 9, 10, 14, 23}
MaxHourEntries == 2

\* One entry of WeatherAPI.com's "hour" list; the temperature tells the hour.
HourEntries ==
    UNION {{[hour |-> h, temp_f |-> t] : t \in {None, Some(50 + h)}} : h \in EntryHours}

\* What the WeatherAPI.com request gives: the request or the decoding raises,
\* an error payload, a payload without forecastday or without hours, an hour
\* list whose entries are no objects, or an hour list.
WeatherApiResponses ==
    {[provider |-> "weatherapi", kind |-> k, hours |-> << >>] :
        k \in {"raises", "error", "no_forecastday", "no_hours", "bad_hours"}}
    \cup {[provider |-> "weatherapi", kind |-> "hours", hours |-> h] :
            h \in UNION {[1 .. n -> HourEntries] : n \in 1 .. MaxHourEntries}}

\* What the Open-Meteo request gives: the arrays hold one value per hour from
\* hour 0 on, a null for a missing value.
OpenMeteoValues == UNION {[1 .. n -> {None, Some(50)}] : n \in 0 .. MaxHourEntries}
OpenMeteoResponses ==
    {[provider |-> "openmeteo", kind |-> k, temps |-> << >>, weathercodes |-> << >>] :
        k \in {"raises", "error"}}
    \cup {[provider |-> "openmeteo", kind |-> "hourly", temps |-> t, weathercodes |-> c] :
            t \in OpenMeteoValues, c \in OpenMeteoValues}

Returned(value, selected) == [raised |-> FALSE, value |-> value, selected |-> selected]
Raised == [raised |-> TRUE, value |-> None, selected |-> 0]

\* Line 885: diff = abs((hour_time.hour - hour) % 24); Python's % gives 0..23.
HourDiff(entry_hour, hour) == (entry_hour - hour) % 24

\* Lines 866-891: the index of matching_hour in hours, 0 when there is none.
\* The first entry of the start hour; failing that the first entry with the
\* smallest diff among those whose time parses.
MatchingHour(hours, hour) ==
    LET exact == {i \in DOMAIN hours : hours[i].hour = hour}
        parsed == {i \in DOMAIN hours : hours[i].hour # BadTime}
        smallest == {i \in parsed : \A j \in parsed :
                        HourDiff(hours[i].hour, hour) <= HourDiff(hours[j].hour, hour)}
        First(S) == CHOOSE i \in S : \A j \in S : i <= j
    IN  IF exact # {} THEN First(exact)
        ELSE IF parsed # {} THEN First(smallest)
        ELSE 0

\* Lines 823-907: the body of _get_weather_weatherapi's try.
WeatherApiBody(resp, hour) ==
    IF resp.kind \in {"raises", "bad_hours"} THEN Raised
    ELSE IF resp.kind \in {"error", "no_forecastday", "no_hours"} THEN Returned(None, 0)
    ELSE LET m == MatchingHour(resp.hours, hour)
         IN  IF m = 0 THEN Returned(None, 0)
             ELSE Returned(resp.hours[m].temp_f, m)

\* Lines 921-988: the body of _get_weather_openmeteo's try.  selected is the
\* 1-based place of activity_hour in the arrays.
OpenMeteoBody(resp, hour) ==
    IF resp.kind = "raises" THEN Raised
    ELSE IF resp.kind = "error" THEN Returned(None, 0)
    ELSE IF resp.temps = << >> \/ resp.weathercodes = << >> THEN Returned(None, 0)
    ELSE LET activity_hour == IF hour >= Len(resp.temps) THEN Len(resp.temps) - 1 ELSE hour
             temp_f == resp.temps[activity_hour + 1]
             weathercode == IF activity_hour < Len(resp.weathercodes)
                            THEN resp.weathercodes[activity_hour + 1] ELSE None
         IN  IF temp_f = None \/ weathercode = None
             THEN Returned(None, activity_hour + 1)
             ELSE Returned(temp_f, activity_hour + 1)

\* A variant of SwallowErrors that lets the exception through.
SwallowErrors_Propagates(body) == body

\* Lines 909-915 and 990-995: except Exception: ... return None.
SwallowErrors(body) == IF body.raised THEN Returned(None, 0) ELSE body

\* Line 798.
use_weatherapi(api_key) == api_key # None

\* get_weather_for_activity (lines 800-817), with the provider it called.
get_weather_for_activity(api_key, resp, hour) ==
    IF use_weatherapi(api_key)
    THEN [called |-> << "weatherapi" >>, out |-> SwallowErrors(WeatherApiBody(resp, hour))]
    ELSE [called |-> << "openmeteo" >>, out |-> SwallowErrors(OpenMeteoBody(resp, hour))]

\* The new outdoor activities with a start position the weather is fetched for.
WeatherActivities ==
    {p \in PageInputs : p.a.type = "Run" /\ p.a.stream = None /\ ~p.weather}

\* Lines 1937-1962 with the upsert's conversion: the weather is fetched for a new
\* outdoor activity and, when there is any, attached before the properties
\* are generated.
WeatherDrawn ==
    /\ calc.op = "none"
    /\ \E api_key \in {None, Some("k1")}, hour \in StartHours, p \in WeatherActivities :
       \E resp \in (IF use_weatherapi(api_key) THEN WeatherApiResponses
                    ELSE OpenMeteoResponses) :
          LET got == get_weather_for_activity(api_key, resp, hour)
              weather == ~got.out.raised /\ got.out.value # None
          IN  calc' = [op |-> "weather", api_key |-> api_key, hour |-> hour, resp |-> resp,
                       called |-> got.called, out |-> got.out,
                       properties |-> ConvertedProperties([p EXCEPT !.weather = weather])]
    /\ UNCHANGED << syncvars, http, client, notion >>

NextWeather ==
    \/ WeatherDrawn
    \/ CalcDone

SpecWeather == Init /\ [][NextWeather]_vars

TypeOK ==
    /\ pc \in {"idle", "init", "fetch", "prepare", "enrich", "upsert", "summary", "gate",
               "daily", "athlete", "persist"} \cup Ended
    /\ run \in 0 .. MaxRuns
    /\ idx \in 1 .. (Len(activities) + 1)
    /\ Len(log) <= Len(activities)

\* ------------------------------------------------------------ properties

\* C1: the destination activity table holds at most one row per external
\* activity id, in every reachable state, whatever the lookups answer.
C1_AtMostOneRowPerId ==
    \A i \in ActivityIds : rows[i] <= 1

\* C2: an upsert of an activity that already has its one row (made by an earlier
\* sync) never issues a create, is never counted as created, and leaves the
\* table with exactly one row for the id.
C2_SecondUpsertUpdates ==
    \A k \in 1 .. Len(log) :
        (log[k].attempted /\ log[k].rows_before = 1) =>
            /\ log[k].call # "create"
            /\ log[k].result # "created"
            /\ rows[log[k].id] = 1

\* C3: an exception raised while one activity is enriched or upserted is caught
\* and counted: a run that entered the loop ends only after every fetched
\* activity was processed and counted as created, updated, skipped or failed.
C3_ExceptionsIsolated ==
    (pc \in Ended /\ activities # <<>>) =>
        /\ Len(log) = Len(activities)
        /\ stats.created + stats.updated + stats.skipped + stats.failed = stats.fetched

\* A run that got past the listing fetch.
PastFetch == activities # <<>> \/ (pc = "done" /\ setup_error = "none")

\* C4: a run that got past the fetch phase exits non-zero exactly when
\* fetched > 0 and failed / fetched > failure_threshold.
C4_NonZeroExactlyWhenGateTrips ==
    (pc \in Ended /\ PastFetch) =>
        ((exit_code # Some(0)) <=> GateTrips(stats, failure_threshold))

SetupErrors == {"missing_env", "strava_auth_failed", "notion_init_failed", "fetch_failed"}

\* C6: a run whose setup failed (missing credential, failed authentication or
\* failed listing fetch) has exited with status 1 and has issued no create or
\* update call on any destination table.
C6_SetupFailureAborts ==
    (setup_error \in SetupErrors) =>
        /\ pc = "exited"
        /\ exit_code = Some(1)
        /\ log = <<>>
        /\ sub_writes = 0

\* C6 witness: the listing fetch of a second run failed while the table already
\* held a row written by the first run.
C6_Witness ==
    /\ setup_error = "fetch_failed"
    /\ exit_code = Some(1)
    /\ run = 2
    /\ \E i \in ActivityIds : rows[i] > 0

\* The daily-summary or the athlete-metrics sync recorded a failure.
SubSyncFailed ==
    run_stats.daily_failed > 0 \/ run_stats.athlete_failed \/ run_stats.warnings > 0

\* C7: a failure of the daily-summary or athlete-metrics sync is logged as a
\* warning and leaves the exit status alone: the run goes on and ends with
\* status 0, as a run whose sub-syncs succeeded.
C7_SubSyncFailureIsWarning ==
    SubSyncFailed =>
        /\ warn_log >= 1
        /\ pc \in {"athlete", "persist", "done"}
        /\ pc \in {"athlete", "persist"} => exit_code = None
        /\ pc = "done" => exit_code = Some(0)

\* C7 witness: a finished run in which a daily upsert and the athlete upsert failed.
C7_Witness ==
    /\ pc = "done"
    /\ run_stats.daily_failed > 0
    /\ run_stats.athlete_failed
    /\ exit_code = Some(0)

\* The stats log holds the record of the current run.
RunRecorded == \E k \in 1 .. Len(stats_file) : stats_file[k].run = run

\* C8: every invocation that completed activity processing has appended its
\* record to the stats log by the time it ends, whether it ends Done or is
\* aborted by the failure gate.
C8_EveryCompletedRunRecorded ==
    (pc \in Ended /\ summary_logged) => RunRecorded

\* C9: the photo lookup and the weather lookup are made only for an activity for
\* which no existing row was found; the weather lookup only for a sport that is
\* not indoor and an activity with start coordinates; an activity that is
\* updated gets neither.
C9_LookupsOnlyForNewRows ==
    \A k \in 1 .. Len(log) :
        log[k].attempted =>
            /\ log[k].photo => ~log[k].existing
            /\ log[k].weather =>
                  /\ ~log[k].existing
                  /\ StravaActivities[log[k].id].type \notin INDOOR_SPORTS
                  /\ StravaActivities[log[k].id].start_latlng
            /\ log[k].call = "update" => (~log[k].photo /\ ~log[k].weather)

\* C9 witness: one activity was updated without any lookup, another one was
\* created with the photo lookup and the weather lookup.
C9_Witness ==
    \E j, k \in 1 .. Len(log) :
        /\ log[j].call = "update" /\ ~log[j].photo /\ ~log[j].weather
        /\ log[k].call = "create" /\ log[k].photo /\ log[k].weather

\* Indexes of the activities of day d whose data quality is "Good".
GoodOfDay(d) ==
    {k \in 1 .. Len(ann) : /\ IsDict(activities[k])
                           /\ StravaActivities[activities[k]].day = d
                           /\ ann[k].hr_data_quality = "Good"}

\* C10: an activity carries load points only when its HR data quality is
\* "Good", and a day's load total counts only such activities: a day without a
\* "Good" activity has total 0, and no day counts more load workouts than it
\* has "Good" activities.
C10_LoadOnlyFromGoodQuality ==
    /\ \A k \in 1 .. Len(ann) : ann[k].load_pts # None => ann[k].hr_data_quality = "Good"
    /\ daily_summaries # None =>
          \A d \in DOMAIN daily_summaries[1] :
              /\ daily_summaries[1][d].load_workouts_count <= Cardinality(GoodOfDay(d))
              /\ GoodOfDay(d) = {} => daily_summaries[1][d].total_load_pts = 0

\* C10 witness: a "Partial" activity with a zone histogram and no load points
\* shares its day with a "Good" activity whose load is the day's total.
C10_Witness ==
    /\ daily_summaries # None
    /\ \E j, k \in 1 .. Len(ann) :
          /\ ann[k].hr_data_quality = "Partial"
          /\ ann[k].hr_zone_minutes # None
          /\ ann[k].load_pts = None
          /\ ann[j].load_pts # None
          /\ StravaActivities[activities[j]].day = StravaActivities[activities[k]].day
          /\ daily_summaries[1][StravaActivities[activities[j]].day].total_load_pts
                = ann[j].load_pts[1]

\* C11: after enrichment, drift metrics are present only for a pace sport with
\* at least 20 minutes of moving time, at least 3 miles (more than 4828 m) and
\* adequate stream coverage (quality "Good"); in every other case no drift
\* property is in the written payload.
C11_DriftOnlyWhenEligible ==
    calc.op = "annotate" =>
        LET eligible == /\ calc.a.type \in PACE_SPORTS
                        /\ calc.a.moving_time >= 20 * 60
                        /\ calc.a.distance > MinDistanceFloor
                        /\ calc.ann.hr_data_quality = "Good"
        IN  /\ calc.ann.drift_metrics # None => eligible
            /\ ~eligible => (calc.ann.drift_metrics = None /\ calc.drift_properties = {})
            /\ calc.ann.drift_metrics = None => calc.drift_properties = {}

\* C11 witness: a run of 20 minutes with a fully covered stream that is just
\* short of 3 miles gets no drift metrics and no drift property.
C11_Witness ==
    /\ calc.op = "annotate"
    /\ calc.a.type = "Run"
    /\ calc.a.has_heartrate
    /\ calc.a.moving_time = 1200
    /\ calc.a.distance = MinDistanceFloor
    /\ calc.a.stream = Some(GenStream(4, 400, TRUE))
    /\ calc.ann.hr_data_quality = "Good"
    /\ calc.ann.drift_metrics = None
    /\ calc.drift_properties = {}

\* C12: for an activity whose fetched stream has at least one sample, quality is
\* "Good" exactly when the stream has at least 120 samples or covers at least
\* 80% of the moving time, and "Partial" otherwise.
C12_GoodIffCountOrEightyPercent ==
    (calc.op = "quality" /\ calc.a.has_heartrate) =>
        LET n == NSamples(calc.stream)
            covered == calc.stream.time[n] - calc.stream.time[1]
            good == n >= 120 \/ 10 * covered >= 8 * calc.a.moving_time
        IN  calc.quality = IF good THEN "Good" ELSE "Partial"

\* An outcome is a retryable failure: a response with status 429, 500, 502, 503
\* or 504, or a timeout or connection error.
RetryableFailure(outcome) ==
    \/ outcome.kind = "response" /\ outcome.status \in {429, 500, 502, 503, 504}
    \/ outcome.kind = "exception" /\ outcome.type \in {"Timeout", "ConnectionError"}

HttpActive == http.state = "request"
HttpEnded == http.state \in {"returned", "raised"}

\* C13: http_request_with_retries issues another request only after a retryable
\* failure, issues at most max_retries + 1 requests, and has ended (returned a
\* response or raised) once that many requests were made.
C13_RetriesBoundedAndOnlyRetryable ==
    http.state # "idle" =>
        /\ Len(http.history) <= Max2(0, http.max_retries + 1)
        /\ \A i \in 1 .. Len(http.history) :
              (i < Len(http.history) \/ HttpActive) => RetryableFailure(http.history[i])
        /\ Len(http.history) >= http.max_retries + 1 => (HttpEnded \/ ENABLED HttpLoopEnded)
        /\ HttpEnded => http.result # None

\* C13 witness: three retryable failures, then the fourth and last allowed
\* request is answered.
C13_Witness ==
    /\ http.state = "returned"
    /\ http.max_retries = HTTP_MAX_RETRIES
    /\ Len(http.history) = HTTP_MAX_RETRIES + 1
    /\ Len(http.sleeps) = HTTP_MAX_RETRIES

\* A response with a status of 400 or above outside the retryable set.
NonRetryableStatus(outcome) ==
    /\ outcome.kind = "response"
    /\ outcome.status >= 400
    /\ outcome.status \notin {429, 500, 502, 503, 504}

\* C14: a response with a non-retryable status of 400 or above makes the call
\* raise at once: no sleep and no request follows it, and when it answers the
\* first request the call has made exactly one request and slept never.
C14_NonRetryableFailsFast ==
    http.state # "idle" =>
        \A i \in 1 .. Len(http.history) :
            NonRetryableStatus(http.history[i]) =>
                /\ i = Len(http.history)
                /\ http.state = "raised"
                /\ http.result = Some([type |-> "HTTPError",
                                       status |-> Some(http.history[i].status)])
                /\ Len(http.sleeps) = i - 1

\* C14 witness: the first request is answered 404 and the call has raised.
C14_Witness ==
    /\ http.state = "raised"
    /\ http.max_retries = HTTP_MAX_RETRIES
    /\ http.history = << [kind |-> "response", status |-> 404] >>
    /\ http.sleeps = <<>>

\* Every allowed attempt failed with a retryable error.
RetriesExhausted ==
    /\ http.state = "raised"
    /\ Len(http.history) = http.max_retries + 1
    /\ \A i \in 1 .. Len(http.history) : RetryableFailure(http.history[i])

\* C15: when every allowed attempt failed with a retryable error, what the call
\* raises is a distinguished failure: not one of the errors a single attempt
\* produces, so that the caller can tell it from a first-attempt failure.
C15_ExhaustionIsDistinguished ==
    RetriesExhausted => http.result \notin {RaisedBy(o) : o \in AttemptOutcomes}

\* C16: the sleep before retry k is 60 * k seconds after a 429 from the source
\* platform, and backoff_factor * 2^(k-1) plus a jitter of 0 to 0.25 seconds
\* after every other retryable failure, a 429 from another host included.
C16_BackoffDelays ==
    http.state # "idle" =>
        \A k \in 1 .. Len(http.sleeps) :
            LET seconds == http.sleeps[k].seconds
                base == http.backoff_factor * 2 ^ (k - 1)
            IN  IF http.sleeps[k].status = Some(429) /\ http.host = "strava"
                THEN seconds = 100 * 60 * k
                ELSE base <= seconds /\ seconds <= base + 25

InListing == client.state \in {"listing", "returned", "raised"}

\* The activities 1 .. k, as the listing numbers them.
FirstItems(k) == [i \in 1 .. k |-> i]

\* C17: a 401 answer to the request of page p is followed by exactly one
\* re-authentication and, when that succeeds, by one more request of the same
\* page p with the token the re-authentication stored; the activities of the
\* pages before p are kept; when the re-request fails the call raises with no
\* further re-authentication or request.
C17_ReauthOnceAndRetrySamePage ==
    InListing =>
        \A i \in 1 .. Len(client.trace) :
            LET e == client.trace[i]
            IN  (e.ev = "request" /\ e.result = "unauthorized" /\ ~e.retry) =>
                /\ i + 1 <= Len(client.trace)
                /\ client.trace[i + 1].ev = "refresh"
                /\ IF client.trace[i + 1].outcome # "ok"
                   THEN i + 1 = Len(client.trace) /\ client.state = "raised"
                   ELSE /\ i + 2 <= Len(client.trace)
                        /\ client.trace[i + 2].ev = "request"
                        /\ client.trace[i + 2].retry
                        /\ client.trace[i + 2].page = e.page
                        /\ client.trace[i + 2].token = client.trace[i + 1].after
                        /\ IF client.trace[i + 2].result # "ok"
                           THEN i + 2 = Len(client.trace) /\ client.state = "raised"
                           ELSE /\ Len(client.all_activities) >= (e.page - 1) * 200
                                /\ SubSeq(client.all_activities, 1, (e.page - 1) * 200)
                                      = FirstItems((e.page - 1) * 200)

\* C17 witness: page 2 answered 401, the client re-authenticated, received a new
\* token, asked for page 2 again with it and the call returned both pages.
C17_Witness ==
    /\ client.state = "returned"
    /\ client.all_activities = FirstItems(201)
    /\ \E i \in 1 .. Len(client.trace) :
          /\ client.trace[i].ev = "refresh"
          /\ client.trace[i].outcome = "ok"
          /\ client.trace[i].after # client.trace[i].before
          /\ client.trace[i - 1].page = 2
          /\ client.trace[i + 1].page = 2
          /\ client.trace[i + 1].result = "ok"

\* The re-authentications of the current get_recent_activities call.
Reauthentications == {i \in 1 .. Len(client.trace) : client.trace[i].ev = "refresh"}

\* C18: one get_recent_activities call re-authenticates at most once in all.
C18_AtMostOneReauthPerCall ==
    InListing => Cardinality(Reauthentications) <= 1

\* The requests that were answered with a page, in the order they were made.
AnsweredRequests ==
    SelectSeq(client.trace, LAMBDA e : e.ev = "request" /\ e.result = "ok")

\* C19: the pages answered are pages 1, 2, 3, ... in order; every page but the
\* last answered one is full, the call returns exactly at the first page that is
\* empty or shorter than 200, and the activities collected are the pages
\* received, in order, each once.
C19_PagesInOrderUntilShort ==
    InListing =>
        LET answered == AnsweredRequests
            k == Len(answered)
        IN  /\ \A j \in 1 .. k : answered[j].page = j
            /\ \A j \in 1 .. k :
                  (Min2(client.n, 200 * j) - 200 * (j - 1) < 200)
                      <=> (j = k /\ client.state = "returned")
            /\ client.state = "returned" => k >= 1
            /\ client.all_activities = FirstItems(Min2(client.n, 200 * k))

\* C19 witness: 400 activities; page 1 is re-requested after a 401, pages 2 and 3
\* follow, page 3 is empty and the call returns the 400 activities.
C19_Witness ==
    /\ client.state = "returned"
    /\ client.n = 400
    /\ Len(AnsweredRequests) = 3
    /\ AnsweredRequests[1].retry
    /\ client.all_activities = FirstItems(400)

\* C20: a refresh that fails or whose response has no access token raises and
\* leaves access_token as it was (none, when there was none); a successful one
\* stores the token received; nothing else changes the token.
C20_TokenReplacedOnlyBySuccess ==
    client.state # "none" =>
        /\ \A i \in 1 .. Len(client.trace) :
              LET e == client.trace[i]
              IN  e.ev = "refresh" =>
                      IF e.outcome = "ok"
                      THEN e.after \in Tokens
                      ELSE /\ e.after = e.before
                           /\ i = Len(client.trace)
                           /\ client.state \in {"raised", "init_raised"}
        /\ client.state = "init_raised" => client.access_token = NoToken
        /\ client.state \in {"ready", "listing", "returned", "raised"} =>
              client.access_token \in Tokens
        /\ Reauthentications # {} =>
              LET last == CHOOSE i \in Reauthentications : \A j \in Reauthentications : j <= i
              IN  client.access_token = client.trace[last].after

\* C20 witness: a refresh inside a listing call got a response without a token:
\* the call raised and the client still holds its previous token.
C20_Witness ==
    /\ client.state = "raised"
    /\ client.access_token \in Tokens
    /\ Len(client.trace) >= 2
    /\ client.trace[Len(client.trace)].ev = "refresh"
    /\ client.trace[Len(client.trace)].outcome = "missing_token"
    /\ client.trace[Len(client.trace)].after = client.access_token


\* C21: for each database id the schema retrieval is made at most once in the
\* process, whether it gave a property set, no property or a failure; a call for
\* an id already in the cache, from any client, returns what is cached and does
\* not contact the destination.
C21_SchemaRetrievedAtMostOnce ==
    /\ \A d \in DatabaseIds : notion.retrievals[d] <= 1
    /\ (notion.last.op = "get_schema" /\ notion.last.cached_before) =>
          /\ ~notion.last.contacted
          /\ notion.last.result = notion.last.schema_before

\* A later call finds the None that a failed or empty retrieval left.
C21_Witness ==
    /\ notion.last.op = "get_schema"
    /\ notion.last.cached_before
    /\ notion.last.schema_before = None
    /\ notion.retrievals[notion.last.database_id] = 1

\* C22: when the schema retrieval returned zero properties, upsert_activity sends
\* every generated property: none is removed from the payload.
C22_NothingRemovedWithoutSchema ==
    (/\ notion.last.op = "upsert_activity"
     /\ notion.last.retrieval = "properties"
     /\ notion.last.allowed = None) =>
        notion.last.sent = Some(notion.last.generated)

\* C23: whenever a non-empty schema is cached, every property name in the payload
\* that upsert_activity, upsert_daily_summary or upsert_athlete_metrics sends is
\* in that schema, and a write that succeeds with properties dropped returns
\* success.
C23_PayloadWithinSchema ==
    (/\ notion.last.op \in {"upsert_activity", "upsert_daily_summary", "upsert_athlete_metrics"}
     /\ notion.last.allowed # None
     /\ notion.last.sent # None) =>
        /\ notion.last.sent[1] \subseteq notion.last.allowed[1]
        /\ notion.last.outcome.kind = "returns" => notion.last.returned = Some(TRUE)

\* An activity with properties the schema lacks was written with success.
C23_Witness ==
    /\ notion.last.op = "upsert_activity"
    /\ notion.last.allowed # None
    /\ ~(notion.last.generated \subseteq notion.last.allowed[1])
    /\ notion.last.sent # Some({})
    /\ notion.last.returned = Some(TRUE)

NotionRetryStatus(e) == e.kind = "api_error" /\ e.status \in {429, 500, 502, 503, 504}

\* C24: _notion_call_with_retries invokes the callable again only after an API
\* error with status 429, 500, 502, 503 or 504, makes at most max_retries + 1
\* invocations, raises any other error at once, raises the error of the last
\* allowed invocation, and each pass of its loop uses up one invocation.
C24_NotionRetriesBounded ==
    LET c == notion.call
    IN  c.state # "idle" =>
          /\ Len(c.seen) <= Max2(c.max_retries + 1, 0)
          /\ \A k \in 1 .. Len(c.seen) - 1 : NotionRetryStatus(c.seen[k])
          /\ c.state = "calling" =>
                /\ c.attempts = Len(c.seen)
                /\ \A k \in 1 .. Len(c.seen) : NotionRetryStatus(c.seen[k])
          /\ (c.seen # <<>> /\ c.seen[Len(c.seen)].kind # "returns"
                /\ ~NotionRetryStatus(c.seen[Len(c.seen)])) => c.state = "raised"
          /\ (c.seen # <<>> /\ Len(c.seen) = c.max_retries + 1
                /\ c.seen[Len(c.seen)].kind # "returns") =>
                c.state = "raised"
          /\ c.state = "fell_through" => c.max_retries < 0

\* Every allowed invocation failed with a retryable status and the last error
\* was raised.
C24_Witness ==
    /\ notion.call.state = "raised"
    /\ notion.call.max_retries = HTTP_MAX_RETRIES
    /\ Len(notion.call.seen) = HTTP_MAX_RETRIES + 1
    /\ NotionRetryStatus(notion.call.seen[HTTP_MAX_RETRIES + 1])

RECURSIVE SumSeq(_)
SumSeq(seq) == IF seq = <<>> THEN 0 ELSE seq[1] + SumSeq(Tail(seq))

\* The reference of C26, in seconds: over the leading samples i < n of the
\* truncated stream, max(0, time[i+1] - time[i]) goes to the first zone whose
\* band [min, max) holds hr[i], the top zone having no upper bound.
RefBands(hr, zones) ==
    {k \in 1 .. Len(zones) : hr >= zones[k].min /\ (k = Len(zones) \/ hr < zones[k].max)}
RefFirstBand(hr, zones) ==
    IF RefBands(hr, zones) = {} THEN 0
    ELSE CHOOSE k \in RefBands(hr, zones) : \A j \in RefBands(hr, zones) : k <= j
RefDelta(s, i) == IF s.time[i + 1] > s.time[i] THEN s.time[i + 1] - s.time[i] ELSE 0
RefLength(s) == Min2(Len(s.hr), Len(s.time))
RefZoneSeconds(s, zones, z) ==
    SumSeq([i \in 1 .. RefLength(s) - 1 |->
               IF RefFirstBand(s.hr[i], zones) = z THEN RefDelta(s, i) ELSE 0])
RefIsNull(hr_stream, zones) ==
    hr_stream = None \/ zones = None \/ zones = Some(<<>>) \/ RefLength(hr_stream[1]) < 2

RefDriftLength(s) == Min2(Min2(Len(s.hr), Len(s.time)), Len(s.vel))
RefMid2(s) == s.time[1] + s.time[RefDriftLength(s)]
RefPart(s, i, half) ==
    IF s.time[i + 1] <= s.time[i] THEN 0
    ELSE IF half = 1
         THEN Min2(2 * s.time[i + 1], RefMid2(s)) - Min2(2 * s.time[i], RefMid2(s))
         ELSE Max2(2 * s.time[i + 1], RefMid2(s)) - Max2(2 * s.time[i], RefMid2(s))
RefHalfDuration(s, half) ==
    SumSeq([i \in 1 .. RefDriftLength(s) - 1 |-> RefPart(s, i, half)])
RefHalfVelocity(s, half) ==
    SumSeq([i \in 1 .. RefDriftLength(s) - 1 |-> s.vel[i] * RefPart(s, i, half)])
RefHalfTooSlow(s, half) ==
    \/ RefDriftLength(s) < 2
    \/ RefHalfDuration(s, half) = 0
    \/ RefHalfVelocity(s, half) <= DRIFT_MIN_VELOCITY_THRESHOLD_MPS * RefHalfDuration(s, half)

\* C29: compute_hr_drift returns null whenever a half of the stream has zero
\* covered duration or a time-weighted average velocity of at most 0.1 m/s, and
\* both average velocities of a non-null result are above 0.1 m/s.
C29_NoDriftWithoutMovement ==
    calc.op = "hr_drift" =>
        /\ (RefHalfTooSlow(calc.stream, 1) \/ RefHalfTooSlow(calc.stream, 2)) =>
               calc.result = None
        /\ calc.result # None =>
               /\ calc.result[1].dt_1 > 0 /\ calc.result[1].dt_2 > 0
               /\ calc.result[1].vel_sum_1
                      > DRIFT_MIN_VELOCITY_THRESHOLD_MPS * calc.result[1].dt_1
               /\ calc.result[1].vel_sum_2
                      > DRIFT_MIN_VELOCITY_THRESHOLD_MPS * calc.result[1].dt_2

\* A stream whose second half moves at exactly 0.1 m/s gives null.
C29_Witness ==
    /\ calc.op = "hr_drift"
    /\ calc.stream.time = <<0, 10, 20, 30>>
    /\ calc.stream.vel = <<30, 1, 1, 1>>
    /\ calc.result = None

\* The total load of day d in the summaries, 0 for a day without a summary.
RefDayLoad(daily, d) == IF d \in DOMAIN daily THEN daily[d].total_load_pts ELSE 0
RefWindowLoad(daily, today, length) ==
    SumSeq([k \in 1 .. length |-> RefDayLoad(daily, today - length + k)])

\* C31: load_7d is the sum of the daily load totals over today-6 .. today and
\* load_28d the sum over today-27 .. today; a day without a summary, after today
\* or before the window adds nothing, and load_7d <= load_28d.
C31_RollingLoadsAreWindowSums ==
    calc.op = "rolling_loads" =>
        /\ calc.result.load_7d = RefWindowLoad(calc.daily, calc.today, 7)
        /\ calc.result.load_28d = RefWindowLoad(calc.daily, calc.today, 28)
        /\ calc.result.load_7d <= calc.result.load_28d

\* Only today has load 5, next to summaries outside both windows.
C31_Witness ==
    /\ calc.op = "rolling_loads"
    /\ DOMAIN calc.daily = {calc.today - 28, calc.today, calc.today + 1}
    /\ calc.daily[calc.today].total_load_pts = 500
    /\ calc.daily[calc.today - 28].total_load_pts = 1000
    /\ calc.daily[calc.today + 1].total_load_pts = 1000
    /\ calc.result = [load_7d |-> 500, load_28d |-> 500]

\* C32: the load balance of the athlete row is load_7d / load_28d rounded to 3
\* decimals when load_28d is above zero, and is null and left out of the written
\* row when load_28d is zero.
C32_LoadBalanceRoundedOrNull ==
    notion.last.op = "upsert_athlete_metrics" =>
        LET metrics == notion.last.metrics
            load_7d == IF metrics.load_7d = None THEN 0 ELSE metrics.load_7d[1]
        IN  IF metrics.load_28d = None
            THEN /\ metrics.load_balance = None
                 /\ notion.last.sent # None =>
                        ATHLETE_METRICS_SCHEMA.load_balance \notin notion.last.sent[1]
            ELSE /\ metrics.load_balance # None
                 /\ 2 * (metrics.load_balance[1] * metrics.load_28d[1] - 1000 * load_7d)
                        <= metrics.load_28d[1]
                 /\ 2 * (1000 * load_7d - metrics.load_balance[1] * metrics.load_28d[1])
                        <= metrics.load_28d[1]

\* Loads of 10 and 20 were written with a balance of 0.5.
C32_Witness ==
    /\ notion.last.op = "upsert_athlete_metrics"
    /\ notion.last.metrics = [load_7d |-> Some(1000), load_28d |-> Some(2000),
                              load_balance |-> Some(500)]
    /\ notion.last.sent # None
    /\ ATHLETE_METRICS_SCHEMA.load_balance \in notion.last.sent[1]

\* C30: the confidence label of upsert_daily_summary is "High" when the day has
\* an eligible cardio session and all of them produced load, "Medium" when some
\* but not all did, "Low" when none did or there is no eligible cardio session.
C30_LoadConfidenceLabel ==
    notion.last.op = "upsert_daily_summary" =>
        LET eligible == notion.last.summary.eligible_cardio_count
            loaded == notion.last.summary.load_workouts_count
            label == notion.last.confidence
        IN  /\ (eligible >= 1 /\ loaded = eligible) => label = "High"
            /\ (eligible >= 1 /\ 0 < loaded /\ loaded < eligible) => label = "Medium"
            /\ (eligible = 0 \/ loaded = 0) => label = "Low"

\* A day where one of two eligible sessions produced load was written with its
\* label.
C30_Witness ==
    /\ notion.last.op = "upsert_daily_summary"
    /\ notion.last.confidence = "Medium"
    /\ notion.last.sent # None
    /\ DAILY_SUMMARY_SCHEMA.load_confidence \in notion.last.sent[1]
    /\ notion.last.returned = Some(TRUE)

IsOrderedSelection(sub, seq) ==
    \E f \in [1 .. Len(sub) -> 1 .. Len(seq)] :
        /\ \A k \in 1 .. Len(sub) : sub[k] = seq[f[k]]
        /\ \A k \in 1 .. Len(sub) - 1 : f[k] < f[k + 1]

RECURSIVE RefSumCounts(_, _)
RefSumCounts(table, keys) ==
    IF keys = {} THEN 0
    ELSE LET k == CHOOSE x \in keys : TRUE
         IN  table[k] + RefSumCounts(table, keys \ {k})

\* C37: aggregate_stats gives total_runs as the number of records, each workout
\* counter as the sum of that counter over the records with a missing section
\* or counter counted as 0, a sub-sync as enabled when at least one record
\* enabled it, total_errors as the number of error entries, fingerprints of at
\* most 50 characters, and fingerprint counts that sum to total_errors.
C37_AggregateTotals ==
    calc.op = "aggregate" =>
        LET ws == calc.weekly_stats
            agg == calc.result
            Counter(r, n) == IF r.workouts # None /\ n \in DOMAIN r.workouts[1]
                             THEN r.workouts[1][n] ELSE 0
            Errors(r) == IF r.errors = None THEN 0 ELSE Len(r.errors[1])
        IN  /\ agg.total_runs = Len(ws)
            /\ \A n \in WorkoutCounters :
                  agg.workouts[n] = SumSeq([i \in 1 .. Len(ws) |-> Counter(ws[i], n)])
            /\ agg.daily_summary.enabled
                  <=> \E i \in 1 .. Len(ws) :
                         ws[i].daily_summary # None /\ ws[i].daily_summary[1].enabled
            /\ agg.athlete_metrics.enabled
                  <=> \E i \in 1 .. Len(ws) :
                         ws[i].athlete_metrics # None /\ ws[i].athlete_metrics[1].enabled
            /\ agg.total_errors = SumSeq([i \in 1 .. Len(ws) |-> Errors(ws[i])])
            /\ \A f \in DOMAIN agg.error_fingerprints : Len(f) <= 50
            /\ RefSumCounts(agg.error_fingerprints, DOMAIN agg.error_fingerprints)
                  = agg.total_errors

C37_Witness ==
    /\ calc.op = "aggregate"
    /\ Len(calc.weekly_stats) = 3
    /\ \E i \in 1 .. 3 : calc.weekly_stats[i].workouts = None
    /\ \E i \in 1 .. 3 : calc.weekly_stats[i].age = 7
    /\ calc.result.total_errors = 3
    /\ \E f \in DOMAIN calc.result.error_fingerprints :
          Len(f) = 50 /\ calc.result.error_fingerprints[f] = 2
    /\ calc.result.workouts["fetched"] = 5
    /\ calc.result.workouts["created"] = 1
    /\ calc.result.daily_summary.enabled
    /\ calc.result.daily_summary.total_days = 2

\* C34: get_weather_for_activity never raises: a failed request, an error
\* payload and missing or malformed hourly data all give null; the activity is
\* then converted without the weather properties; and exactly one provider is
\* called, chosen by the presence of the API key.
C34_WeatherNeverRaises ==
    calc.op = "weather" =>
        LET failed ==
                \/ calc.resp.kind \in {"raises", "error", "no_forecastday", "no_hours",
                                       "bad_hours"}
                \/ /\ calc.resp.kind = "hours"
                   /\ \A i \in DOMAIN calc.resp.hours : calc.resp.hours[i].hour = BadTime
                \/ /\ calc.resp.kind = "hourly"
                   /\ calc.resp.temps = << >> \/ calc.resp.weathercodes = << >>
        IN  /\ ~calc.out.raised
            /\ failed => calc.out.value = None
            /\ calc.out.value = None =>
                  calc.properties \cap {NOTION_SCHEMA.temperature_f,
                                        NOTION_SCHEMA.weather_conditions} = {}
            /\ calc.called = << IF calc.api_key # None THEN "weatherapi" ELSE "openmeteo" >>
            /\ calc.resp.provider = calc.called[1]

C34_Witness ==
    /\ calc.op = "weather"
    /\ calc.api_key # None
    /\ calc.resp.kind = "raises"
    /\ calc.out.value = None
    /\ NOTION_SCHEMA.temperature_f \notin calc.properties

RefAbs(x) == IF x < 0 THEN 0 - x ELSE x
RefHourDistance(a, b) == RefAbs(a - b)
RefClockDistance(a, b) == Min2(RefAbs(a - b), 24 - RefAbs(a - b))

\* C35: when the hourly data has an entry for the start hour, that entry is
\* selected; when it has none, the selected entry is the available hour at the
\* smallest distance in hours from the start hour (counted along the day or
\* around the clock).
C35_ClosestHourSelected ==
    calc.op = "weather" /\ calc.out.selected # 0 =>
        LET available ==
                IF calc.resp.kind = "hours"
                THEN {calc.resp.hours[i].hour : i \in DOMAIN calc.resp.hours} \ {BadTime}
                ELSE 0 .. (Len(calc.resp.temps) - 1)
            chosen == IF calc.resp.kind = "hours"
                      THEN calc.resp.hours[calc.out.selected].hour
                      ELSE calc.out.selected - 1
        IN  /\ chosen \in available
            /\ calc.hour \in available => chosen = calc.hour
            /\ \/ \A h \in available :
                     RefHourDistance(chosen, calc.hour) <= RefHourDistance(h, calc.hour)
               \/ \A h \in available :
                     RefClockDistance(chosen, calc.hour) <= RefClockDistance(h, calc.hour)

\* C38: all through the activity loop created + updated + failed is the number
\* of activities processed so far and skipped is 0; once the loop of a run that
\* fetched activities is over, created + updated + failed = fetched and
\* failed <= fetched.
C38_CountersPartitionActivities ==
    /\ stats.skipped = 0
    /\ stats.created + stats.updated + stats.failed = Len(log)
    /\ stats.failed <= stats.fetched
    /\ (activities # << >> /\ pc \notin {"enrich", "upsert"}) =>
          stats.created + stats.updated + stats.failed = stats.fetched

\* One of the optional syncs of this run has begun: control is past the daily
\* sync, or something it or the athlete sync sets is set.
RefSubSyncStarted ==
    \/ pc \in {"athlete", "persist"}
    \/ sub_writes > 0
    \/ warn_log > 0
    \/ daily_summaries # None
    \/ athlete_metrics # None
    \/ run_stats # ZeroRunStats

\* failed / fetched is above the threshold the gate read.
RefGateTripped ==
    stats.fetched > 0 /\ stats.failed * 1000 > failure_threshold * stats.fetched

\* C39: the daily-summary and athlete-metrics syncs begin only after the
\* failure gate was passed; when the gate trips the run exits with nothing
\* written to their tables; and a run that fetched an empty list makes no
\* destination write of any kind.
C39_SubSyncsOnlyPastGate ==
    /\ RefSubSyncStarted =>
          summary_logged /\ ~RefGateTripped /\ Len(log) = Len(activities)
    /\ (summary_logged /\ pc # "gate" /\ RefGateTripped) =>
          pc = "exited" /\ ~RefSubSyncStarted
    /\ activities = << >> => log = << >> /\ ~RefSubSyncStarted

C39_Witness ==
    /\ pc = "exited"
    /\ summary_logged
    /\ RefGateTripped
    /\ stats.failed = 1
    /\ stats.fetched = 2
    /\ sub_writes = 0

\* C40: for streams with at least two aligned samples and strictly increasing
\* timestamps, compute_hr_drift covers the same duration in both halves, each
\* half of (last - first) with the interval across the midpoint split at it, so
\* neither covered duration is zero.  Durations are doubled in the model, so
\* half the total reads as the total.
C40_HalvesCoverEqualDurations ==
    calc.op = "hr_drift" =>
        LET s == calc.stream
            n == Min2(Min2(Len(s.hr), Len(s.time)), Len(s.vel))
        IN  (n >= 2 /\ \A i \in 1 .. n - 1 : s.time[i] < s.time[i + 1]) =>
                /\ calc.halves # None
                /\ calc.halves[1].dt_1 = s.time[n] - s.time[1]
                /\ calc.halves[1].dt_2 = s.time[n] - s.time[1]
                /\ calc.halves[1].dt_1 > 0

C40_Witness ==
    /\ calc.op = "hr_drift"
    /\ calc.stream.time = << 5, 6, 7, 50 >>
    /\ Len(calc.stream.vel) = 4
    /\ calc.halves # None
    /\ calc.halves[1].dt_1 = 45
    /\ calc.halves[1].dt_2 = 45

====
